---- MODULE Spec2Model ----
(***************************************************************************)
(* ChessView: PGN tokenizer, move-tree builder, serializer and the         *)
(* NavigationController (tree version) of src/src/utils.ts.                *)
(*                                                                         *)
(* Text is a sequence of one-character strings.  The legality engine       *)
(* (chess.js) is external; it is abstracted to positions that record the   *)
(* base position and the moves played, with legality decided by the side   *)
(* to move.                                                                *)
(***************************************************************************)
EXTENDS Integers, Sequences, FiniteSets, TLC

\* ------------------------------------------------------------------------
\* Bounds
\* ------------------------------------------------------------------------
MaxWords == 3
MaxAdded == 1
MaxStack == 1
MaxPending == 1
MaxTimers == 2
MaxMarkers == 2

\* ------------------------------------------------------------------------
\* Generic sequence helpers
\* ------------------------------------------------------------------------
Last(s) == s[Len(s)]

Front(s) == SubSeq(s, 1, Len(s) - 1)

Slice(s, i, j) == SubSeq(s, i + 1, j)

RECURSIVE Concat(_)
Concat(ss) == IF ss = <<>> THEN <<>> ELSE Head(ss) \o Concat(Tail(ss))

RECURSIVE Join(_)
Join(parts) ==
  IF parts = <<>> THEN <<>>
  ELSE IF Len(parts) = 1 THEN parts[1]
  ELSE parts[1] \o <<" ">> \o Join(Tail(parts))

Min(a, b) == IF a < b THEN a ELSE b

Max(a, b) == IF a > b THEN a ELSE b

\* ------------------------------------------------------------------------
\* The legality engine (chess.js), abstracted
\* ------------------------------------------------------------------------
WhiteSans == {"e4", "d4", "a8=Q", "a8=N"}

BlackSans == {"e5", "d5"}

Sans == WhiteSans \cup BlackSans

NoMove == "null"

\* written form of each SAN
SanText(san) ==
  CASE san = "e4" -> <<"e", "4">>
    [] san = "d4" -> <<"d", "4">>
    [] san = "e5" -> <<"e", "5">>
    [] san = "d5" -> <<"d", "5">>
    [] san = "a8=Q" -> <<"a", "8", "=", "Q">>
    [] san = "a8=N" -> <<"a", "8", "=", "N">>

\* sloppy matching: the long form e2e4 is accepted for e4
SloppySan(text) ==
  IF \E s \in Sans : SanText(s) = text
    THEN CHOOSE s \in Sans : SanText(s) = text
  ELSE IF text = <<"e", "2", "e", "4">> THEN "e4"
  ELSE NoMove

\* a position: the base position (side to move, fullmove number) and the
\* moves played from it
StartFen(turn, num) == [turn |-> turn, num |-> num, hist |-> <<>>]

DefaultFen == StartFen("w", 1)

Turn(fen) ==
  IF Len(fen.hist) % 2 = 0 THEN fen.turn
  ELSE IF fen.turn = "w" THEN "b" ELSE "w"

Legal(fen, san) ==
  san \in (IF Turn(fen) = "w" THEN WhiteSans ELSE BlackSans)

Play(fen, san) == [fen EXCEPT !.hist = Append(@, san)]

Undo(fen) ==
  IF fen.hist = <<>> THEN fen ELSE [fen EXCEPT !.hist = Front(@)]

\* ------------------------------------------------------------------------
\* NAG table (types.ts NAG_DEFINITIONS)
\* ------------------------------------------------------------------------
NoNag == "undefined"

NAG_DEFINITIONS ==
  { [code |-> "$1", text |-> <<"$", "1">>, inlinePgn |-> <<"!">>],
    [code |-> "$2", text |-> <<"$", "2">>, inlinePgn |-> <<"?">>],
    [code |-> "$3", text |-> <<"$", "3">>, inlinePgn |-> <<"!", "!">>],
    [code |-> "$4", text |-> <<"$", "4">>, inlinePgn |-> <<"?", "?">>],
    [code |-> "$5", text |-> <<"$", "5">>, inlinePgn |-> <<"!", "?">>],
    [code |-> "$6", text |-> <<"$", "6">>, inlinePgn |-> <<"?", "!">>],
    [code |-> "$7", text |-> <<"$", "7">>, inlinePgn |-> <<>>],
    [code |-> "$9", text |-> <<"$", "9">>, inlinePgn |-> <<>>],
    [code |-> "$10", text |-> <<"$", "1", "0">>, inlinePgn |-> <<>>],
    [code |-> "$13", text |-> <<"$", "1", "3">>, inlinePgn |-> <<>>],
    [code |-> "$14", text |-> <<"$", "1", "4">>, inlinePgn |-> <<>>],
    [code |-> "$15", text |-> <<"$", "1", "5">>, inlinePgn |-> <<>>],
    [code |-> "$16", text |-> <<"$", "1", "6">>, inlinePgn |-> <<>>],
    [code |-> "$17", text |-> <<"$", "1", "7">>, inlinePgn |-> <<>>],
    [code |-> "$18", text |-> <<"$", "1", "8">>, inlinePgn |-> <<>>],
    [code |-> "$19", text |-> <<"$", "1", "9">>, inlinePgn |-> <<>>] }

\* NAG_BY_CODE[text] as a set: empty when the code is unknown
NAG_BY_CODE(text) == {d \in NAG_DEFINITIONS : d.text = text}

NAG_BY_INLINE(text) ==
  {d \in NAG_DEFINITIONS : d.inlinePgn # <<>> /\ d.inlinePgn = text}

NagDef(code) == CHOOSE d \in NAG_DEFINITIONS : d.code = code

\* ------------------------------------------------------------------------
\* Tokenizer (parser.ts tokenizePgn)
\* ------------------------------------------------------------------------
Digits == {"0", "1", "2", "3", "4", "5", "6", "7", "8", "9"}

IsSpace(ch) == ch \in {" ", "\n"}

IsMoveStart(ch) ==
  ch \in {"a", "b", "c", "d", "e", "f", "g", "h", "K", "Q", "R", "B", "N", "O"}

IsMoveStop(ch) == IsSpace(ch) \/ ch \in {"{", "}", "(", ")", "$"}

RECURSIVE TrimStart(_)
TrimStart(s) ==
  IF s # <<>> /\ IsSpace(Head(s)) THEN TrimStart(Tail(s)) ELSE s

RECURSIVE TrimEnd(_)
TrimEnd(s) ==
  IF s # <<>> /\ IsSpace(Last(s)) THEN TrimEnd(Front(s)) ELSE s

Trim(s) == TrimStart(TrimEnd(s))

EndsWith(s, suf) ==
  Len(s) >= Len(suf) /\ SubSeq(s, Len(s) - Len(suf) + 1, Len(s)) = suf

ResultTokens ==
  { <<"1", "-", "0">>, <<"0", "-", "1">>,
    <<"1", "/", "2", "-", "1", "/", "2">>, <<"*">> }

\* .replace(/\s*(1-0|0-1|1\/2-1\/2|\*)\s*$/g, '')
StripResult(s) ==
  LET t == TrimEnd(s)
  IN IF \E r \in ResultTokens : EndsWith(t, r)
       THEN LET r == CHOOSE r \in ResultTokens :
                       /\ EndsWith(t, r)
                       /\ \A q \in ResultTokens :
                            EndsWith(t, q) => Len(q) <= Len(r)
            IN TrimEnd(SubSeq(t, 1, Len(t) - Len(r)))
     ELSE s

\* first index j >= i (0-based) whose character is not in the class, or Len
RECURSIVE ScanWhile(_, _, _)
ScanWhile(s, j, class) ==
  IF j < Len(s) /\ s[j + 1] \in class THEN ScanWhile(s, j + 1, class) ELSE j

RECURSIVE ScanMove(_, _)
ScanMove(s, j) ==
  IF j < Len(s) /\ ~IsMoveStop(s[j + 1]) THEN ScanMove(s, j + 1) ELSE j

\* cleaned.indexOf(ch, from), -1 when absent
RECURSIVE IndexOf(_, _, _)
IndexOf(s, ch, from) ==
  IF from >= Len(s) THEN -1
  ELSE IF s[from + 1] = ch THEN from
  ELSE IndexOf(s, ch, from + 1)

\* /^\d+\.+$/
IsMoveNumber(seg) ==
  LET d == ScanWhile(seg, 0, Digits)
      e == ScanWhile(seg, d, {"."})
  IN d > 0 /\ e > d /\ e = Len(seg)

Token(type, value) == [type |-> type, value |-> value]

RECURSIVE TokenizeFrom(_, _, _)
TokenizeFrom(cleaned, i, tokens) ==
  IF i >= Len(cleaned) THEN tokens
  ELSE
    LET ch == cleaned[i + 1]
        numEnd == ScanWhile(cleaned, i, Digits \cup {"."})
    IN IF IsSpace(ch) THEN TokenizeFrom(cleaned, i + 1, tokens)
       ELSE IF ch \in Digits /\ IsMoveNumber(Slice(cleaned, i, numEnd))
         THEN TokenizeFrom(cleaned, numEnd, tokens)
       ELSE IF ch = "{"
         THEN LET end == IndexOf(cleaned, "}", i + 1)
              IN IF end = -1 THEN TokenizeFrom(cleaned, i + 1, tokens)
                 ELSE TokenizeFrom(cleaned, end + 1,
                        Append(tokens,
                          Token("comment", Trim(Slice(cleaned, i + 1, end)))))
       ELSE IF ch = "$"
         THEN LET j == ScanWhile(cleaned, i + 1, Digits)
              IN TokenizeFrom(cleaned, j,
                   Append(tokens, Token("nag", Slice(cleaned, i, j))))
       ELSE IF ch = "("
         THEN TokenizeFrom(cleaned, i + 1,
                Append(tokens, Token("open_variation", <<"(">>)))
       ELSE IF ch = ")"
         THEN TokenizeFrom(cleaned, i + 1,
                Append(tokens, Token("close_variation", <<")">>)))
       ELSE IF IsMoveStart(ch)
         THEN LET j == ScanMove(cleaned, i)
              IN TokenizeFrom(cleaned, j,
                   Append(tokens, Token("move", Slice(cleaned, i, j))))
       ELSE TokenizeFrom(cleaned, i + 1, tokens)

\* pgn.replace(/\[[^\]]*"[^\]]*"\]/g, '')
IsHeaderBody(seg) ==
  /\ Len(seg) >= 2
  /\ Last(seg) = "\""
  /\ \E k \in 1..(Len(seg) - 1) : seg[k] = "\""

RECURSIVE StripHeaders(_, _)
StripHeaders(s, i) ==
  IF i >= Len(s) THEN s
  ELSE IF s[i + 1] = "["
    THEN LET j == IndexOf(s, "]", i + 1)
         IN IF j # -1 /\ IsHeaderBody(Slice(s, i + 1, j))
              THEN StripHeaders(Slice(s, 0, i) \o Slice(s, j + 1, Len(s)), i)
            ELSE StripHeaders(s, i + 1)
  ELSE StripHeaders(s, i + 1)

tokenizePgn(pgn) ==
  TokenizeFrom(Trim(StripResult(StripHeaders(pgn, 0))), 0, <<>>)

\* ------------------------------------------------------------------------
\* Inline NAG extraction (parser.ts extractInlineNag)
\* ------------------------------------------------------------------------
RECURSIVE StripGlyphs(_)
StripGlyphs(s) ==
  IF s # <<>> /\ Last(s) \in {"!", "?"} THEN StripGlyphs(Front(s)) ELSE s

\* the match of /([!?]{1,2})$/: the last one or two glyph characters
GlyphSuffix(s) ==
  LET run == Len(s) - Len(StripGlyphs(s))
  IN SubSeq(s, Len(s) - Min(run, 2) + 1, Len(s))

extractInlineNag(moveStr) ==
  LET inline == GlyphSuffix(moveStr)
  IN IF inline = <<>> \/ NAG_BY_INLINE(inline) = {}
       THEN [move |-> moveStr, nagCode |-> NoNag]
     ELSE [move |-> StripGlyphs(moveStr),
           nagCode |-> (CHOOSE d \in NAG_BY_INLINE(inline) : TRUE).code]

\* ------------------------------------------------------------------------
\* Move-tree builder (parser.ts parseMovesWithVariations)
\*
\* The tree is an arena: lines[id] is a line (a sequence of nodes) and a
\* node's variations is a sequence of line ids.  Line 1 is the root line.
\* A line array gets its id when it is attached to its parent node.
\* ------------------------------------------------------------------------
NoComment == <<>>

RootLine == 1

\* no overlays: MoveNode.annotations undefined
NoAnnotation == <<>>

MoveNode(san, fen, comment, nag) ==
  [san |-> san, fen |-> fen, comment |-> comment, nag |-> nag,
   annotations |-> NoAnnotation, variations |-> <<>>]

\* ------------------------------------------------------------------------
\* Overlay commands in comments (parser.ts parseCommentAnnotations); the
\* circle command [%csl ...] with one definition stands for both commands,
\* which the builder treats alike
\* ------------------------------------------------------------------------
CslTag == <<"[", "%", "c", "s", "l">>

\* 0-based start of the first match of /\[%csl\s+([^\]]+)\]/ at or after i
RECURSIVE FindOverlay(_, _)
FindOverlay(s, i) ==
  IF i + Len(CslTag) + 2 >= Len(s) THEN -1
  ELSE IF /\ SubSeq(s, i + 1, i + Len(CslTag)) = CslTag
          /\ IsSpace(s[i + Len(CslTag) + 1])
          /\ IndexOf(s, "]", i + Len(CslTag) + 1) >= i + Len(CslTag) + 2
    THEN i
  ELSE FindOverlay(s, i + 1)

\* /^([RGBYOP]?)([a-h][1-8])$/i on the trimmed definition
CircleOf(def) ==
  LET d == Trim(def)
      sq == IF Len(d) = 3 THEN Tail(d) ELSE d
  IN IF /\ Len(d) \in {2, 3}
        /\ (Len(d) = 3 => d[1] \in {"R", "G", "B", "Y", "O", "P"})
        /\ sq[1] \in {"a", "b", "c", "d", "e", "f", "g", "h"}
        /\ sq[2] \in {"1", "2", "3", "4", "5", "6", "7", "8"}
       THEN << [square |-> sq,
                colorKey |-> IF Len(d) = 3 THEN d[1] ELSE "G"] >>
     ELSE <<>>

\* the circles of the first overlay command; <<>> when there is none
parseCommentAnnotations(comment) ==
  LET i == FindOverlay(comment, 0)
  IN IF i = -1 THEN <<>>
     ELSE CircleOf(Slice(comment, i + Len(CslTag),
                         IndexOf(comment, "]", i + Len(CslTag) + 1)))

\* content.replace(/\[%csl\s+[^\]]+\]/gi, '')
RECURSIVE StripOverlays(_)
StripOverlays(s) ==
  LET i == FindOverlay(s, 0)
  IN IF i = -1 THEN s
     ELSE StripOverlays(
            Slice(s, 0, i)
              \o Slice(s, IndexOf(s, "]", i + Len(CslTag) + 1) + 1, Len(s)))

ParseState(startFen) ==
  [lines |-> << <<>> >>, stack |-> <<>>, currentMoves |-> <<>>,
   chess |-> startFen, pendingComment |-> NoComment,
   pendingAnnotation |-> NoAnnotation, pendingNag |-> NoNag,
   warnings |-> <<>>]

ClearPending(st) ==
  [st EXCEPT !.pendingComment = NoComment,
             !.pendingAnnotation = NoAnnotation, !.pendingNag = NoNag]

\* case 'comment'
OnComment(st, token) ==
  LET annotation == parseCommentAnnotations(token.value)
      textComment == Trim(StripOverlays(token.value))
      n == Len(st.currentMoves)
  IN IF n > 0
       THEN [st EXCEPT
               !.currentMoves[n].comment =
                  IF textComment # <<>> THEN textComment ELSE @,
               !.currentMoves[n].annotations = @ \o annotation]
     ELSE [st EXCEPT !.pendingComment = textComment,
                     !.pendingAnnotation = annotation]

\* case 'nag'
OnNag(st, token) ==
  LET defs == NAG_BY_CODE(token.value)
      n == Len(st.currentMoves)
  IN IF defs = {} THEN st
     ELSE LET def == CHOOSE d \in defs : TRUE
          IN IF n > 0 THEN [st EXCEPT !.currentMoves[n].nag = def.code]
             ELSE [st EXCEPT !.pendingNag = def.code]

\* the position a variation branching from node branchIndex starts from
BranchFen(moves, branchIndex, startFen) ==
  IF branchIndex > 0 THEN moves[branchIndex].fen ELSE startFen

\* case 'open_variation' (branchIndex is 0-based)
OnOpen(st, startFen) ==
  IF Len(st.currentMoves) = 0 THEN st
  ELSE LET branchIndex == Len(st.currentMoves) - 1
       IN ClearPending(
            [st EXCEPT
               !.stack = Append(@, [chess |-> st.chess,
                                    moves |-> st.currentMoves,
                                    branchFromIndex |-> branchIndex]),
               !.chess = BranchFen(st.currentMoves, branchIndex, startFen),
               !.currentMoves = <<>>])

\* pop one frame and attach the closed line to frame.parentMoves[branchFromIndex]
PopFrame(st) ==
  LET frame == Last(st.stack)
      newId == Len(st.lines) + 1
      attach == Len(st.currentMoves) > 0
  IN [st EXCEPT
        !.stack = Front(@),
        !.lines = IF attach THEN Append(@, st.currentMoves) ELSE @,
        !.currentMoves =
           IF attach
             THEN [frame.moves EXCEPT
                     ![frame.branchFromIndex + 1].variations = Append(@, newId)]
           ELSE frame.moves,
        !.chess = frame.chess]

\* case 'close_variation'
OnClose(st) ==
  IF Len(st.stack) = 0 THEN st ELSE ClearPending(PopFrame(st))

\* case 'move'; throws: the engine throws on an illegal move instead of
\* returning null
OnMove(st, token, throws) ==
  LET ex == extractInlineNag(token.value)
      san == SloppySan(ex.move)
  IN IF san # NoMove /\ Legal(st.chess, san)
       THEN LET fen == Play(st.chess, san)
                node == [MoveNode(san, fen, st.pendingComment,
                           IF ex.nagCode # NoNag THEN ex.nagCode
                           ELSE st.pendingNag)
                           EXCEPT !.annotations = st.pendingAnnotation]
            IN ClearPending(
                 [st EXCEPT !.chess = fen,
                            !.currentMoves = Append(@, node)])
     ELSE IF throws
       THEN [st EXCEPT !.warnings =
               Append(@, [token |-> ex.move, after |-> Len(st.currentMoves)])]
     ELSE st

ParseStep(st, token, startFen, throws) ==
  CASE token.type = "comment" -> OnComment(st, token)
    [] token.type = "nag" -> OnNag(st, token)
    [] token.type = "open_variation" -> OnOpen(st, startFen)
    [] token.type = "close_variation" -> OnClose(st)
    [] token.type = "move" -> OnMove(st, token, throws)

RECURSIVE ParseTokens(_, _, _, _)
ParseTokens(st, tokens, startFen, throws) ==
  IF tokens = <<>> THEN st
  ELSE ParseTokens(ParseStep(st, Head(tokens), startFen, throws),
                   Tail(tokens), startFen, throws)

CloseAll_none(st) == st

\* "Close any unclosed variations"
RECURSIVE CloseAll(_)
CloseAll(st) == IF Len(st.stack) = 0 THEN st ELSE CloseAll(PopFrame(st))

\* returns [lines, warnings]; lines[RootLine] is the returned root line
parseMovesWithVariations(pgn, startFen, throws) ==
  LET st == CloseAll(ParseTokens(ParseState(startFen), tokenizePgn(pgn),
                                 startFen, throws))
  IN [lines |-> [st.lines EXCEPT ![RootLine] = st.currentMoves],
      warnings |-> st.warnings]

\* ------------------------------------------------------------------------
\* Serializer (utils.ts NavigationController.serializeLine)
\* ------------------------------------------------------------------------
DigitText(d) ==
  CASE d = 0 -> "0" [] d = 1 -> "1" [] d = 2 -> "2" [] d = 3 -> "3"
    [] d = 4 -> "4" [] d = 5 -> "5" [] d = 6 -> "6" [] d = 7 -> "7"
    [] d = 8 -> "8" [] d = 9 -> "9"

RECURSIVE NumText(_)
NumText(n) ==
  IF n < 10 THEN <<DigitText(n)>>
  ELSE NumText(n \div 10) \o <<DigitText(n % 10)>>

ReservedComment == <<"w", "r", "o", "n", "g">>

\* the text written for a NAG code: def.inlinePgn ?? def.code
NagParts(nag) ==
  IF nag = NoNag \/ ~\E d \in NAG_DEFINITIONS : d.code = nag THEN <<>>
  ELSE LET def == NagDef(nag)
       IN << IF def.inlinePgn # <<>> THEN def.inlinePgn ELSE def.text >>

CommentParts(comment) ==
  IF comment # NoComment /\ comment # ReservedComment
    THEN << <<"{">> \o comment \o <<"}">> >>
  ELSE <<>>

\* side-to-move context handed to a variation of a move played by isBlack
VariationStartsOnBlack(isBlack) == ~isBlack

RECURSIVE SerializeFrom(_, _, _, _, _)
SerializeFrom(lines, id, i, moveNum, isBlack) ==
  IF i >= Len(lines[id]) THEN <<>>
  ELSE
    LET move == lines[id][i + 1]
        prefix == IF ~isBlack THEN << NumText(moveNum) \o <<".">> >>
                  ELSE IF i = 0 THEN << NumText(moveNum) \o <<".", ".", ".">> >>
                  ELSE <<>>
        vars == [v \in 1..Len(move.variations) |->
                   <<"(">> \o Join(SerializeFrom(lines, move.variations[v], 0,
                                      moveNum, VariationStartsOnBlack(isBlack)))
                   \o <<")">>]
    IN prefix \o <<SanText(move.san)>> \o NagParts(move.nag)
         \o CommentParts(move.comment) \o vars
         \o SerializeFrom(lines, id, i + 1,
               IF isBlack THEN moveNum + 1 ELSE moveNum, ~isBlack)

serializeLine(lines, id, startMoveNum, startsOnBlack) ==
  Join(SerializeFrom(lines, id, 0, startMoveNum, startsOnBlack))

\* ------------------------------------------------------------------------
\* Tree values: a line with its variations nested, without arena ids
\* ------------------------------------------------------------------------
RECURSIVE LineValue(_, _)
LineValue(ls, id) ==
  [i \in 1..Len(ls[id]) |->
     LET n == ls[id][i]
     IN [san |-> n.san, comment |-> n.comment, nag |-> n.nag,
         variations |-> [v \in 1..Len(n.variations) |->
                          LineValue(ls, n.variations[v])]]]

RECURSIVE StripAnnotations(_)
StripAnnotations(lv) ==
  [i \in 1..Len(lv) |->
     [san |-> lv[i].san,
      variations |-> [v \in 1..Len(lv[i].variations) |->
                       StripAnnotations(lv[i].variations[v])]]]

RECURSIVE NodeCount(_, _)
NodeCount(ls, k) ==
  IF k = 0 THEN 0 ELSE Len(ls[k]) + NodeCount(ls, k - 1)

\* well-formed move text: balanced parentheses and every move token accepted
RECURSIVE Balanced(_, _)
Balanced(tokens, depth) ==
  IF tokens = <<>> THEN depth = 0
  ELSE IF Head(tokens).type = "open_variation"
    THEN Balanced(Tail(tokens), depth + 1)
  ELSE IF Head(tokens).type = "close_variation"
    THEN depth > 0 /\ Balanced(Tail(tokens), depth - 1)
  ELSE Balanced(Tail(tokens), depth)

WellFormed(text, fen) ==
  LET tokens == tokenizePgn(text)
      r == parseMovesWithVariations(text, fen, TRUE)
      moveTokens == {k \in 1..Len(tokens) : tokens[k].type = "move"}
  IN /\ Balanced(tokens, 0)
     /\ r.warnings = <<>>
     /\ NodeCount(r.lines, Len(r.lines)) = Cardinality(moveTokens)

\* ------------------------------------------------------------------------
\* parseChessInput (parser.ts): marker lines and chess data.  A marker line
\* is given by the parts its pattern captures (key, number, squares, colour
\* word); the chess data by its form, its position and its words.
\* ------------------------------------------------------------------------
NoFen == [turn |-> "null", num |-> 0, hist |-> <<>>]

\* a position string the engine does not accept
InvalidFen == [turn |-> "invalid", num |-> 0, hist |-> <<>>]

NoColor == "undefined"

NoError == "null"

ANNOTATION_COLORS ==
  [w \in {"R", "G", "B", "Y", "O", "P", "red", "green", "blue", "yellow",
          "orange", "purple"} |->
     CASE w \in {"R", "red"} -> "red"
       [] w \in {"G", "green"} -> "green"
       [] w \in {"B", "blue"} -> "blue"
       [] w \in {"Y", "yellow"} -> "yellow"
       [] w \in {"O", "orange"} -> "orange"
       [] w \in {"P", "purple"} -> "purple"]

\* ANNOTATION_COLORS[word] ?? word, or undefined without a colour word
OverlayColor(word) ==
  IF word = NoColor THEN NoColor
  ELSE IF word \in DOMAIN ANNOTATION_COLORS THEN ANNOTATION_COLORS[word]
  ELSE word

Marker(key, n, squares, color) ==
  [key |-> key, n |-> n, squares |-> squares, color |-> color]

PuzzleMarker == Marker("puzzle", 0, <<>>, NoColor)

EmptyResult ==
  [type |-> "game", fen |-> NoFen, moves |-> << <<>> >>,
   orientation |-> "white", isStatic |-> FALSE, isEditable |-> TRUE,
   isPuzzle |-> FALSE, playerColor |-> "white", solutionMoves |-> <<>>,
   arrows |-> <<>>, circles |-> <<>>, highlights |-> <<>>, startMove |-> 0,
   error |-> NoError, warnings |-> <<>>]

parseAnnotationMarker(marker, result) ==
  LET color == OverlayColor(marker.color)
  IN CASE marker.key = "arrow" /\ Len(marker.squares) = 2 ->
            [result EXCEPT !.arrows =
               Append(@, [from |-> marker.squares[1],
                          to |-> marker.squares[2], color |-> color])]
       [] marker.key = "circle" /\ Len(marker.squares) = 1 ->
            [result EXCEPT !.circles =
               Append(@, [square |-> marker.squares[1], color |-> color])]
       [] marker.key = "highlight" /\ Len(marker.squares) = 1 ->
            [result EXCEPT !.highlights =
               Append(@, [square |-> marker.squares[1], color |-> color])]
       [] OTHER -> result

\* variant: [flip] turns the orientation set so far around
FlipOrientation_toggle(orientation) ==
  IF orientation = "black" THEN "white" ELSE "black"

\* [flip] is a synonym of [black]
FlipOrientation(orientation) == "black"

parseMarkerLine(line, result) ==
  LET kv == IF line.key = "ply" THEN [result EXCEPT !.startMove = line.n]
            ELSE result
      bare ==
        CASE line.key = "puzzle" -> [kv EXCEPT !.isPuzzle = TRUE]
          [] line.key = "black" -> [kv EXCEPT !.orientation = "black"]
          [] line.key = "flip" ->
               [kv EXCEPT !.orientation = FlipOrientation(@)]
          [] line.key = "white" -> [kv EXCEPT !.orientation = "white"]
          [] line.key = "static" ->
               [kv EXCEPT !.isStatic = TRUE, !.isEditable = FALSE]
          [] line.key = "noeditable" -> [kv EXCEPT !.isEditable = FALSE]
          [] OTHER -> kv
  IN parseAnnotationMarker(line, bare)

\* for (const line of markers) parseMarkerLine(line, result)
RECURSIVE ParseMarkers(_, _)
ParseMarkers(markers, result) ==
  IF markers = <<>> THEN result
  ELSE ParseMarkers(Tail(markers), parseMarkerLine(Head(markers), result))

\* what parseMovesWithVariations returns for `return []`
NoResult == [lines |-> << <<>> >>, warnings |-> <<>>]

\* the position `new Chess()` holds after load(startFen): a null startFen is
\* not loaded, and a load that returns false leaves the default position
LoadedFen(fen) == IF fen \in {NoFen, InvalidFen} THEN DefaultFen ELSE fen

\* the load of an invalid position throws; both parsers then return []
LoadThrows(fen, throws) == fen = InvalidFen /\ throws

\* parseFlatMoves: the words the move pattern matches are submitted to the
\* engine one after the other
RECURSIVE FlatFrom(_, _, _, _, _)
FlatFrom(words, fen, moves, warnings, throws) ==
  IF words = <<>> THEN [moves |-> moves, warnings |-> warnings]
  ELSE LET ex == extractInlineNag(Head(words))
           san == SloppySan(ex.move)
       IN IF san = NoMove
            THEN FlatFrom(Tail(words), fen, moves, warnings, throws)
          ELSE IF Legal(fen, san)
            THEN FlatFrom(Tail(words), Play(fen, san),
                          Append(moves, [san |-> san, fen |-> Play(fen, san)]),
                          warnings, throws)
          ELSE FlatFrom(Tail(words), fen, moves,
                        IF throws
                          THEN Append(warnings, [token |-> ex.move,
                                                 after |-> Len(moves)])
                        ELSE warnings,
                        throws)

parseFlatMoves(words, startFen0, throws) ==
  IF LoadThrows(startFen0, throws) THEN [moves |-> <<>>, warnings |-> <<>>]
  ELSE FlatFrom(words, LoadedFen(startFen0), <<>>, <<>>, throws)

InvalidFenError == "Invalid FEN"

parseChessData(chessData, result, throws) ==
  LET withFen ==
        [result EXCEPT
           !.type = IF chessData.form = "fen" THEN "fen"
                    ELSE IF result.isPuzzle THEN "puzzle" ELSE "game",
           !.fen = chessData.fen,
           !.error = IF chessData.fen = InvalidFen THEN InvalidFenError
                     ELSE @]
      flat == parseFlatMoves(chessData.words, withFen.fen, throws)
      tree == IF LoadThrows(withFen.fen, throws) THEN NoResult
              ELSE parseMovesWithVariations(Join(chessData.words),
                                            LoadedFen(withFen.fen), throws)
  IN IF chessData.form = "fen" THEN withFen
     ELSE IF result.isPuzzle
       THEN [withFen EXCEPT !.solutionMoves = flat.moves,
                            !.warnings = @ \o flat.warnings]
     ELSE [withFen EXCEPT !.moves = tree.lines,
                          !.warnings = @ \o tree.warnings]

Opposite(color) == IF color = "white" THEN "black" ELSE "white"

\* variant: the solver is always the side to move in the base position
PlayerColor_fenTurn(fenTurn, plies) == fenTurn

PlayerColor(fenTurn, plies) ==
  IF plies % 2 = 0 THEN Opposite(fenTurn) ELSE fenTurn

finalizePuzzle(result, hasOrientationMarker) ==
  IF result.type = "fen"
    THEN [result EXCEPT !.error = "Puzzle requires PGN with moves"]
  ELSE IF Len(result.solutionMoves) = 0
    THEN [result EXCEPT !.error = "Puzzle has no valid moves"]
  ELSE LET fenTurn == IF result.fen # NoFen /\ result.fen.turn = "b"
                        THEN "black" ELSE "white"
           playerColor == PlayerColor(fenTurn, Len(result.solutionMoves))
       IN [result EXCEPT
             !.isEditable = FALSE,
             !.playerColor = playerColor,
             !.orientation = IF hasOrientationMarker THEN @
                             ELSE playerColor]

OrientationKeys == {"white", "black", "flip"}

parseChessInput(src, throws) ==
  LET marked == ParseMarkers(src.markers, EmptyResult)
      data == parseChessData(src.chessData, marked, throws)
  IN IF src.chessData.form = "none"
       THEN [marked EXCEPT !.error = "No FEN or PGN data provided"]
     ELSE IF data.isPuzzle /\ data.error = NoError
       THEN finalizePuzzle(data,
              \E i \in 1..Len(src.markers) :
                 src.markers[i].key \in OrientationKeys)
     ELSE data

\* PuzzleController before construction
NoPuzzle == [state |-> "none"]

\* ------------------------------------------------------------------------
\* State
\* ------------------------------------------------------------------------
VARIABLES
  engineThrows,   \* the linked engine throws on an illegal move (else null)
  startFen,       \* base position (data.fen normalised, or the default)
  startMove,      \* data.startMove, the [ply: N] value
  \* parse / serialize pipeline
  source,         \* move text handed to the tree builder
  stage,          \* "input", "parsed", "serialized", "reparsed", "nav"
  parsed,         \* result of parseMovesWithVariations(source)
  clip,           \* serializeLine of the tree
  reparsed,       \* result of parseMovesWithVariations(clip)
  \* NavigationController
  lines,          \* the arena of line arrays
  moveTree,       \* id of this.moveTree
  currentLine,    \* id of this.currentLine
  currentIndex,
  lineStack,      \* sequence of [line, index]
  chess,          \* position of the shared engine instance
  isPlaying,
  playInterval,   \* timer handle, 0 = null
  timers,         \* handles of the interval timers that exist
  destroyed,
  pending,        \* handleUserMove calls suspended in the promotion prompt
  last,           \* the operation that made the last step
  \* parseChessInput and PuzzleController
  result,         \* the ParsedChessData parseChessInput returns
  puzzle          \* the fields of the PuzzleController

parseVars == <<source, stage, parsed, clip, reparsed>>

treeVars == <<lines, moveTree>>

cursorVars == <<currentLine, currentIndex, lineStack>>

playVars == <<isPlaying, playInterval, timers>>

navVars == <<treeVars, cursorVars, chess, playVars, destroyed, pending, last>>

inputVars == <<result, puzzle>>

vars == <<engineThrows, startFen, startMove, parseVars, navVars, inputVars>>

StartFens == {DefaultFen, StartFen("b", 3)}

\* op: "handleUserMove" (a call), "promotionChosen" (a prompt resolved),
\* "rewind" (goBack, goToStart), "destroy", or "other" (every other
\* operation); san: the SAN the engine produced for a user move; depth: the
\* frame-stack depth a user move or a rewind started from
Op(op, san, depth) ==
  [op |-> op, san |-> san, depth |-> depth, sync |-> FALSE]

NoOp == Op("none", NoMove, 0)

\* ------------------------------------------------------------------------
\* Inputs of the parse pipeline: up to MaxWords words joined by blanks
\* ------------------------------------------------------------------------
OverlayComment ==
  <<"{", "[", "%", "c", "s", "l", " ", "G", "e", "4", "]", "}">>

Words ==
  { <<"e", "4">>, <<"e", "4", "!">>, <<"d", "5">>, <<"e", "5">>,
    <<"(">>, <<")">>, <<"{", "o", "k", "}">>,
    <<"{", "w", "r", "o", "n", "g", "}">>, <<"$", "1", "0">>,
    <<"2", ".">>, <<"X", "y", "z">>, OverlayComment }

WordSeqs == UNION {[1..n -> Words] : n \in 0..MaxWords}

InputTexts == {Join(ws) : ws \in WordSeqs}

\* ------------------------------------------------------------------------
\* Parse pipeline actions
\* ------------------------------------------------------------------------
NavIdle ==
  /\ lines = << <<>> >>
  /\ moveTree = RootLine
  /\ currentLine = RootLine
  /\ currentIndex = 0
  /\ lineStack = <<>>
  /\ chess = startFen
  /\ isPlaying = FALSE
  /\ playInterval = 0
  /\ timers = {}
  /\ destroyed = FALSE
  /\ pending = 0
  /\ last = NoOp

InitParse ==
  /\ engineThrows \in BOOLEAN
  /\ startFen \in StartFens
  /\ startMove = 0
  /\ source \in InputTexts
  /\ stage = "input"
  /\ parsed = NoResult
  /\ clip = <<>>
  /\ reparsed = NoResult
  /\ result = EmptyResult
  /\ puzzle = NoPuzzle
  /\ NavIdle

Parse ==
  /\ stage = "input"
  /\ parsed' = parseMovesWithVariations(source, startFen, engineThrows)
  /\ stage' = "parsed"
  /\ UNCHANGED <<engineThrows, startFen, startMove, source, clip, reparsed, navVars,
               inputVars>>

\* getClipboardText: startMoveNum / startIsBlack come from data.fen
Serialize ==
  /\ stage = "parsed"
  /\ clip' = serializeLine(parsed.lines, RootLine, startFen.num,
                           startFen.turn = "b")
  /\ stage' = "serialized"
  /\ UNCHANGED <<engineThrows, startFen, startMove, source, parsed, reparsed, navVars,
               inputVars>>

Reparse ==
  /\ stage = "serialized"
  /\ reparsed' = parseMovesWithVariations(clip, startFen, engineThrows)
  /\ stage' = "reparsed"
  /\ UNCHANGED <<engineThrows, startFen, startMove, source, parsed, clip, navVars,
               inputVars>>

NextParse == Parse \/ Serialize \/ Reparse

SpecParse == InitParse /\ [][NextParse]_vars

\* ------------------------------------------------------------------------
\* NavigationController (utils.ts, tree version)
\* ------------------------------------------------------------------------
Nav == [currentLine |-> currentLine, currentIndex |-> currentIndex,
        lineStack |-> lineStack, chess |-> chess]

SetNav(n) ==
  /\ currentLine' = n.currentLine
  /\ currentIndex' = n.currentIndex
  /\ lineStack' = n.lineStack
  /\ chess' = n.chess

inVariation(n) == Len(n.lineStack) > 0

canGoForward(ls, n) == n.currentIndex < Len(ls[n.currentLine])

\* chess.move(san) during a replay: a rejected move ends the replay when the
\* engine throws and is skipped when it returns null
RECURSIVE ReplayMoves(_, _, _)
ReplayMoves(fen, sans, throws) ==
  IF sans = <<>> THEN fen
  ELSE IF Legal(fen, Head(sans))
    THEN ReplayMoves(Play(fen, Head(sans)), Tail(sans), throws)
  ELSE IF throws THEN fen
  ELSE ReplayMoves(fen, Tail(sans), throws)

\* the SANs line[0 .. count-1], skipping indices beyond the line
LineSans(line, count) ==
  [i \in 1..Min(Max(count, 0), Len(line)) |-> line[i].san]

\* how far into its line a frame with resume index `index` is replayed
FrameReplayCount(index) == index - 1

RECURSIVE FrameSans(_, _)
FrameSans(ls, stack) ==
  IF stack = <<>> THEN <<>>
  ELSE LineSans(ls[Head(stack).line], FrameReplayCount(Head(stack).index))
         \o FrameSans(ls, Tail(stack))

replayToPosition(ls, stack, line, index, fen0, throws) ==
  ReplayMoves(fen0, FrameSans(ls, stack) \o LineSans(ls[line], index), throws)

\* variant: the upper clamp is missing
ClampIndex_noUpper(index, len) == Max(0, index)

ClampIndex(index, len) == Max(0, Min(len, index))

\* variant: the cursor is left one ply beyond the replayed index
CursorAfterReplay_next(ls, n, index, fen0, throws) == index + 1

\* the cursor goToMove leaves after replaying towards `index`
CursorAfterReplay(ls, n, index, fen0, throws) == index

goToMove(ls, n, index, dead, fen0, throws) ==
  IF dead THEN n
  ELSE LET idx == ClampIndex(index, Len(ls[n.currentLine]))
       IN [n EXCEPT
             !.chess = replayToPosition(ls, n.lineStack, n.currentLine, idx,
                                        fen0, throws),
             !.currentIndex = CursorAfterReplay(ls, n, idx, fen0, throws)]

\* parentLine[moveIndex] && parentMove.variations[varIndex]
HasVariation(ls, parentLine, moveIndex, varIndex) ==
  /\ moveIndex >= 0 /\ moveIndex < Len(ls[parentLine])
  /\ varIndex >= 0
  /\ varIndex < Len(ls[parentLine][moveIndex + 1].variations)

goToVariation(ls, n, parentLine, moveIndex, varIndex, dead, fen0, throws) ==
  IF dead \/ ~HasVariation(ls, parentLine, moveIndex, varIndex) THEN n
  ELSE goToMove(ls,
         [n EXCEPT
            !.lineStack = Append(@, [line |-> n.currentLine,
                                     index |-> moveIndex + 1]),
            !.currentLine = ls[parentLine][moveIndex + 1].variations[varIndex + 1],
            !.currentIndex = 0],
         0, dead, fen0, throws)

\* findLinePath: [found, path] with path a sequence of [parentMoveIndex, line];
\* found = FALSE stands for null
NoPath == [found |-> FALSE, path |-> <<>>]

RECURSIVE findLinePath(_, _, _)
RECURSIVE FindInMoves(_, _, _, _, _)
FindInMoves(ls, searchIn, target, i, v) ==
  IF i >= Len(ls[searchIn]) THEN NoPath
  ELSE IF v >= Len(ls[searchIn][i + 1].variations)
    THEN FindInMoves(ls, searchIn, target, i + 1, 0)
  ELSE LET varLine == ls[searchIn][i + 1].variations[v + 1]
           seg == [parentMoveIndex |-> i, line |-> varLine]
       IN IF varLine = target THEN [found |-> TRUE, path |-> <<seg>>]
          ELSE LET subPath == findLinePath(ls, varLine, target)
               IN IF subPath.found
                    THEN [found |-> TRUE, path |-> <<seg>> \o subPath.path]
                  ELSE FindInMoves(ls, searchIn, target, i, v + 1)

findLinePath(ls, searchIn, target) ==
  IF searchIn = target THEN [found |-> TRUE, path |-> <<>>]
  ELSE FindInMoves(ls, searchIn, target, 0, 0)

PathFrames_noResume(from, path) ==
  [k \in 1..Len(path) |->
     [line |-> IF k = 1 THEN from ELSE path[k - 1].line,
      index |-> path[k].parentMoveIndex]]

RECURSIVE PathFrames(_, _)
PathFrames(from, path) ==
  IF path = <<>> THEN <<>>
  ELSE <<[line |-> from, index |-> Head(path).parentMoveIndex + 1]>>
         \o PathFrames(Head(path).line, Tail(path))

goToMoveInLine(ls, root, n, line, index, dead, fen0, throws) ==
  IF dead THEN n
  ELSE IF line = n.currentLine THEN goToMove(ls, n, index, dead, fen0, throws)
  ELSE LET path == findLinePath(ls, root, line)
       IN IF ~path.found THEN n
          ELSE goToMove(ls,
                 [n EXCEPT !.lineStack = PathFrames(root, path.path),
                           !.currentLine = line],
                 index, dead, fen0, throws)

goToStart(ls, n, dead, fen0, throws) ==
  IF dead THEN n
  ELSE IF ~inVariation(n)
    THEN IF n.currentIndex = 0 THEN n
         ELSE goToMove(ls, n, 0, dead, fen0, throws)
  ELSE IF n.currentIndex <= 1
    THEN LET parent == Last(n.lineStack)
             popped == [n EXCEPT !.lineStack = Front(@),
                                 !.currentLine = parent.line]
         IN goToMove(ls, popped,
                     IF Len(popped.lineStack) = 0 THEN 0 ELSE 1,
                     dead, fen0, throws)
  ELSE goToMove(ls, n, 1, dead, fen0, throws)

goToEnd(ls, n, dead, fen0, throws) ==
  goToMove(ls, n, Len(ls[n.currentLine]), dead, fen0, throws)

goForward(ls, n, dead, fen0, throws) ==
  IF canGoForward(ls, n)
    THEN goToMove(ls, n, n.currentIndex + 1, dead, fen0, throws)
  ELSE n

\* variant: goBack resumes at the frame's index itself
BackTarget_resume(parent) == parent.index

\* the index goBack navigates to in the parent line after popping a frame
BackTarget(parent) == parent.index - 1

goBack(ls, n, dead, fen0, throws) ==
  IF dead THEN n
  ELSE IF inVariation(n) /\ n.currentIndex <= 1
    THEN LET parent == Last(n.lineStack)
         IN goToMove(ls,
              [n EXCEPT !.lineStack = Front(@), !.currentLine = parent.line],
              BackTarget(parent), dead, fen0, throws)
  ELSE IF n.currentIndex > 0
    THEN goToMove(ls, n, n.currentIndex - 1, dead, fen0, throws)
  ELSE n

\* the ply index of full move `target` counted from the base position
StartPly(target, fen0) ==
  IF target < fen0.num THEN 0
  ELSE IF fen0.turn = "b"
    THEN (IF target = fen0.num THEN 1 ELSE 1 + (target - fen0.num) * 2)
  ELSE (target - fen0.num + 1) * 2

goToStartMove(ls, n, target, dead, fen0, throws) ==
  IF target <= 0 THEN n
  ELSE goToMove(ls, n, Min(StartPly(target, fen0), Len(ls[n.currentLine])),
                dead, fen0, throws)

\* ------------------------------------------------------------------------
\* User moves (handleUserMove)
\* ------------------------------------------------------------------------
PromotionKey == "a7a8"

UserKeys == {"e2e4", "d2d4", "e7e5", PromotionKey, "h1h8"}

PromotionPieces == {"q", "n"}

\* the SAN of the move from-to (with the promotion piece), legal or not
KeySan(key, promotion) ==
  CASE key = "e2e4" -> "e4"
    [] key = "d2d4" -> "d4"
    [] key = "e7e5" -> "e5"
    [] key = PromotionKey -> (IF promotion = "n" THEN "a8=N" ELSE "a8=Q")
    [] OTHER -> NoMove

\* chess.move({from, to, promotion}): the SAN, or NoMove when rejected
EngineMove(fen, key, promotion) ==
  LET san == KeySan(key, promotion)
  IN IF san # NoMove /\ Legal(fen, san) THEN san ELSE NoMove

\* BoardManager.getPromotion: is from-to a legal promotion in this position
isPromotion(fen, key) ==
  key = PromotionKey /\ Legal(fen, KeySan(key, "q"))

\* variant: the variations of the node are not searched
FindVariation_none(ls, node, san, v) == -1

\* index of the first non-empty variation of `node` starting with san, or -1
RECURSIVE FindVariation(_, _, _, _)
FindVariation(ls, node, san, v) ==
  IF v >= Len(node.variations) THEN -1
  ELSE LET var == ls[node.variations[v + 1]]
       IN IF Len(var) > 0 /\ var[1].san = san THEN v
          ELSE FindVariation(ls, node, san, v + 1)

\* variant: the variation is pushed onto the node before the cursor
PushVariation_prev(ls, line, index, newNode) ==
  Append([ls EXCEPT ![line][Max(index, 1)].variations = Append(@, Len(ls) + 1)],
         <<newNode>>)

\* currentLine[currentIndex].variations.push([newNode])
PushVariation(ls, line, index, newNode) ==
  Append([ls EXCEPT ![line][index + 1].variations = Append(@, Len(ls) + 1)],
         <<newNode>>)

\* variant: the node is put in front of the line
PushNode_front(ls, line, newNode) == [ls EXCEPT ![line] = <<newNode>> \o @]

\* variant: the node overwrites the last node of the line
PushNode_overwrite(ls, line, newNode) ==
  [ls EXCEPT ![line] = IF @ = <<>> THEN <<newNode>>
                       ELSE Append(Front(@), newNode)]

\* currentLine.push(newNode)
PushNode(ls, line, newNode) == [ls EXCEPT ![line] = Append(@, newNode)]

\* variant: the next move of the line is never recognised
IsRetrace_never(ls, n, san) == FALSE

\* the move is the existing next move of the current line
IsRetrace(ls, n, san) ==
  /\ n.currentIndex < Len(ls[n.currentLine])
  /\ ls[n.currentLine][n.currentIndex + 1].san = san

\* a rejected move: a thrown error reaches the catch block, which calls
\* syncBoard; a null result leaves through `if (!move) return`
RejectedSync(throws) == throws

\* the part of handleUserMove after the await; returns the new arena, the
\* new cursor state, the SAN the engine produced, and whether the handler
\* redrew the board from the engine (syncBoard, syncAfterMove, or the
\* syncBoard inside goToMove) before it returned
handleUserMove(ls, n, key, promotion, dead, fen0, throws) ==
  LET san == EngineMove(n.chess, key, promotion)
      len == Len(ls[n.currentLine])
      moved == Play(n.chess, san)
      v == IF n.currentIndex < len
             THEN FindVariation(ls, ls[n.currentLine][n.currentIndex + 1], san, 0)
           ELSE -1
      newNode == MoveNode(san, moved, NoComment, NoNag)
  IN IF san = NoMove
       THEN [lines |-> ls, nav |-> n, san |-> san,
             sync |-> RejectedSync(throws)]
     ELSE IF IsRetrace(ls, n, san)
       THEN [lines |-> ls,
             nav |-> [n EXCEPT !.currentIndex = @ + 1, !.chess = moved],
             san |-> san, sync |-> TRUE]
     ELSE IF v # -1
       THEN [lines |-> ls,
             nav |-> goToMove(ls,
                       goToVariation(ls, n, n.currentLine, n.currentIndex, v,
                                     dead, fen0, throws),
                       1, dead, fen0, throws),
             san |-> san, sync |-> ~dead]
     ELSE IF n.currentIndex < len
       THEN LET ls2 == PushVariation(ls, n.currentLine, n.currentIndex, newNode)
                last2 == Len(ls2[n.currentLine][n.currentIndex + 1].variations) - 1
            IN [lines |-> ls2,
                nav |-> goToMove(ls2,
                          goToVariation(ls2, n, n.currentLine, n.currentIndex,
                                        last2, dead, fen0, throws),
                          1, dead, fen0, throws),
                san |-> san, sync |-> ~dead]
     ELSE LET ls2 == PushNode(ls, n.currentLine, newNode)
          IN [lines |-> ls2,
              nav |-> [n EXCEPT !.currentIndex = Len(ls2[n.currentLine]),
                                !.chess = moved],
              san |-> san, sync |-> TRUE]

\* ------------------------------------------------------------------------
\* Navigator actions
\* ------------------------------------------------------------------------
\* "3... e5 4. d4 (4. e4 (4. d4))"
TextNested ==
  <<"3", ".", ".", ".", " ", "e", "5", " ", "4", ".", " ", "d", "4", " ",
    "(", "4", ".", " ", "e", "4", " ", "(", "4", ".", " ", "d", "4", ")", ")">>

\* the move text, the base position, the engine flavour and the [ply: N]
\* value the navigator is constructed with
NavInputs ==
  { [text |-> <<>>, fen |-> DefaultFen, throws |-> FALSE, startMove |-> 0],
    [text |-> TextNested, fen |-> StartFen("b", 3), throws |-> TRUE,
     startMove |-> 1] }

TotalNodes == NodeCount(lines, Len(lines))

\* index arguments tried on a line: every ply and one value beyond each end
IndexArgs(line) == -1..(Len(lines[line]) + 1)

\* nodes added by user moves since construction
Added == TotalNodes - NodeCount(parsed.lines, Len(parsed.lines))

\* constructor
Init ==
  /\ \E input \in NavInputs :
       /\ source = input.text
       /\ startFen = input.fen
       /\ engineThrows = input.throws
       /\ startMove = input.startMove
  /\ stage = "nav"
  /\ parsed = parseMovesWithVariations(source, startFen, engineThrows)
  /\ clip = <<>>
  /\ reparsed = NoResult
  /\ result = EmptyResult
  /\ puzzle = NoPuzzle
  /\ IF Len(parsed.lines[RootLine]) > 0
       THEN /\ lines = parsed.lines
            /\ currentLine = RootLine
       ELSE /\ lines = << <<>>, <<>> >>
            /\ currentLine = 2
  /\ moveTree = RootLine
  /\ currentIndex = 0
  /\ lineStack = <<>>
  /\ chess = startFen
  /\ isPlaying = FALSE
  /\ playInterval = 0
  /\ timers = {}
  /\ destroyed = FALSE
  /\ pending = 0
  /\ last = NoOp

Fixed ==
  <<engineThrows, startFen, startMove, source, stage, parsed, reparsed,
    inputVars>>

NavStep(n, op) ==
  /\ SetNav(n)
  /\ last' = op
  /\ UNCHANGED <<Fixed, clip, treeVars, playVars, destroyed, pending>>

GoToMove ==
  \E index \in IndexArgs(currentLine) :
    NavStep(goToMove(lines, Nav, index, destroyed, startFen, engineThrows),
            Op("other", NoMove, 0))

GoToVariation ==
  \E parentLine \in 1..Len(lines) :
  \E moveIndex \in 0..(Len(lines[parentLine]) - 1) :
  \E varIndex \in 0..Len(lines[parentLine][moveIndex + 1].variations) :
    /\ Len(lineStack) < MaxStack
    /\ NavStep(goToVariation(lines, Nav, parentLine, moveIndex, varIndex,
                          destroyed, startFen, engineThrows),
               Op("other", NoMove, 0))

GoToMoveInLine ==
  \E line \in 1..Len(lines) :
  \E index \in 0..Len(lines[line]) :
    NavStep(goToMoveInLine(lines, moveTree, Nav, line, index, destroyed,
                           startFen, engineThrows),
            Op("other", NoMove, 0))

GoToStart ==
  NavStep(goToStart(lines, Nav, destroyed, startFen, engineThrows),
          Op("rewind", NoMove, Len(lineStack)))

GoToEnd ==
  NavStep(goToEnd(lines, Nav, destroyed, startFen, engineThrows),
          Op("other", NoMove, 0))

GoToStartMove ==
  NavStep(goToStartMove(lines, Nav, startMove, destroyed, startFen,
                        engineThrows),
          Op("other", NoMove, 0))

GoForward ==
  NavStep(goForward(lines, Nav, destroyed, startFen, engineThrows),
          Op("other", NoMove, 0))

GoBack ==
  NavStep(goBack(lines, Nav, destroyed, startFen, engineThrows),
          Op("rewind", NoMove, Len(lineStack)))

\* the continuation of handleUserMove once the promotion piece is known
Continue(key, promotion, op) ==
  LET r == handleUserMove(lines, Nav, key, promotion, destroyed, startFen,
                          engineThrows)
  IN /\ NodeCount(r.lines, Len(r.lines)) = TotalNodes \/ Added < MaxAdded
     /\ lines' = r.lines
     /\ SetNav(r.nav)
     /\ last' = [Op(op, r.san, Len(lineStack)) EXCEPT !.sync = r.sync]
     /\ UNCHANGED <<Fixed, clip, moveTree, playVars, destroyed>>

\* handleUserMove(orig, dest): a move that is no promotion continues at once,
\* a promotion waits for the prompt
HandleUserMove ==
  \E key \in UserKeys :
    IF destroyed
      THEN /\ last' = Op("handleUserMove", NoMove, 0)
           /\ UNCHANGED <<Fixed, clip, treeVars, cursorVars, chess, playVars,
                          destroyed, pending>>
    ELSE IF isPromotion(chess, key)
      THEN /\ pending < MaxPending
           /\ pending' = pending + 1
           /\ last' = Op("handleUserMove", NoMove, 0)
           /\ UNCHANGED <<Fixed, clip, treeVars, cursorVars, chess, playVars,
                          destroyed>>
    ELSE /\ Continue(key, "q", "handleUserMove")
         /\ UNCHANGED pending

\* the prompt of one suspended call resolves (a dismissed prompt gives "q")
PromotionChosen ==
  \E piece \in PromotionPieces :
    /\ pending > 0
    /\ pending' = pending - 1
    /\ Continue(PromotionKey, piece, "promotionChosen")

NewTimer == CHOOSE h \in 1..(Cardinality(timers) + 1) : h \notin timers

\* variant: the flag is reset but the interval is not cleared
stopAutoPlay_keepTimer(p) ==
  [isPlaying |-> FALSE, playInterval |-> 0, timers |-> p.timers]

stopAutoPlay(p) ==
  [isPlaying |-> FALSE, playInterval |-> 0,
   timers |-> IF p.playInterval # 0 THEN p.timers \ {p.playInterval}
              ELSE p.timers]

startAutoPlay(p) ==
  IF p.isPlaying THEN p
  ELSE [isPlaying |-> TRUE, playInterval |-> NewTimer,
        timers |-> p.timers \cup {NewTimer}]

Play3 == [isPlaying |-> isPlaying, playInterval |-> playInterval,
          timers |-> timers]

SetPlay(p) ==
  /\ isPlaying' = p.isPlaying
  /\ playInterval' = p.playInterval
  /\ timers' = p.timers

ToggleAutoPlay ==
  /\ SetPlay(IF isPlaying THEN stopAutoPlay(Play3) ELSE startAutoPlay(Play3))
  /\ last' = Op("other", NoMove, 0)
  /\ UNCHANGED <<Fixed, clip, treeVars, cursorVars, chess, destroyed, pending>>

\* stopAutoPlay(), recorded in the ghost as `op`
StopAutoPlayAs(op) ==
  /\ SetPlay(stopAutoPlay(Play3))
  /\ last' = op
  /\ UNCHANGED <<Fixed, clip, treeVars, cursorVars, chess, destroyed, pending>>

StopAutoPlay == StopAutoPlayAs(Op("other", NoMove, 0))

\* the setInterval callback of startAutoPlay
Tick ==
  \E t \in timers :
    /\ last' = Op("other", NoMove, 0)
    /\ IF currentIndex >= Len(lines[currentLine])
         THEN /\ SetPlay(stopAutoPlay(Play3))
              /\ UNCHANGED <<cursorVars, chess>>
       ELSE /\ SetNav(goToMove(lines, Nav, currentIndex + 1, destroyed,
                               startFen, engineThrows))
            /\ UNCHANGED playVars
    /\ UNCHANGED <<Fixed, clip, treeVars, destroyed, pending>>

\* the position string chess.fen() returns, as text
FenText(fen) == <<Turn(fen)>> \o Concat([i \in 1..Len(fen.hist) |->
                                          <<" ">> \o SanText(fen.hist[i])])

getClipboardText(ls, root, fen, fen0) ==
  IF Len(ls[root]) = 0 THEN FenText(fen)
  ELSE serializeLine(ls, root, fen0.num, fen0.turn = "b")

\* the text is returned to the caller; no field of the navigator changes
GetClipboardText ==
  /\ getClipboardText(lines, moveTree, chess, startFen) \in Seq(STRING)
  /\ last' = Op("other", NoMove, 0)
  /\ UNCHANGED <<Fixed, clip, treeVars, cursorVars, chess, playVars,
                 destroyed, pending>>

Destroy ==
  /\ destroyed' = TRUE
  /\ SetPlay(stopAutoPlay(Play3))
  /\ last' = Op("destroy", NoMove, 0)
  /\ UNCHANGED <<Fixed, clip, treeVars, cursorVars, chess, pending>>

Next ==
  \/ GoToMove
  \/ GoToVariation
  \/ GoToMoveInLine
  \/ GoToStart
  \/ GoToEnd
  \/ GoToStartMove
  \/ GoForward
  \/ GoBack
  \/ HandleUserMove
  \/ PromotionChosen
  \/ ToggleAutoPlay
  \/ StopAutoPlay
  \/ Tick
  \/ GetClipboardText
  \/ Destroy

Spec == Init /\ [][Next]_vars

TypeOK ==
  /\ currentLine \in 1..Len(lines)
  /\ currentIndex \in Int
  /\ pending \in 0..MaxPending

\* ------------------------------------------------------------------------
\* Properties
\* ------------------------------------------------------------------------

\* C1: re-parsing the serializer's output of a tree built from well-formed
\* move text gives the same SANs, variation structure, comments and NAGs.
C1_RoundTrip ==
  (stage = "reparsed" /\ WellFormed(source, startFen))
    => LineValue(reparsed.lines, RootLine) = LineValue(parsed.lines, RootLine)

\* ------------------------------------------------------------------------
\* Vocabulary of the navigator properties
\* ------------------------------------------------------------------------
\* the steps that apply a user move: a call that needs no prompt, and the
\* resolution of a prompt
UserMoveOps == {"handleUserMove", "promotionChosen"}

\* the arena the constructor built
InitialLines ==
  IF Len(parsed.lines[RootLine]) > 0 THEN parsed.lines ELSE << <<>>, <<>> >>

\* this step applied a user move the engine accepted
MoveApplied == last'.op \in UserMoveOps /\ last'.san # NoMove

\* node b is node a with nothing but variations appended
NodeExtends(a, b) ==
  /\ b.san = a.san /\ b.fen = a.fen /\ b.comment = a.comment /\ b.nag = a.nag
  /\ Len(b.variations) >= Len(a.variations)
  /\ SubSeq(b.variations, 1, Len(a.variations)) = a.variations

\* line b is line a with nodes appended and variations appended to its nodes
LineExtends(a, b) ==
  /\ Len(b) >= Len(a)
  /\ \A j \in 1..Len(a) : NodeExtends(a[j], b[j])

\* the variations of `node` that are non-empty and start with san
VariationsStarting(ls, node, san) ==
  {v \in 1..Len(node.variations) :
     Len(ls[node.variations[v]]) > 0 /\ ls[node.variations[v]][1].san = san}

\* how many plies of the current line a replay towards `index` applies
PliesReplayed(ls, stack, line, index, fen0, throws) ==
  LET frames == FrameSans(ls, stack)
      afterFrames == ReplayMoves(fen0, frames, throws)
  IN IF throws /\ Len(afterFrames.hist) < Len(frames) THEN 0
     ELSE Len(ReplayMoves(afterFrames, LineSans(ls[line], index), throws).hist)
            - Len(afterFrames.hist)

\* C2: while a handleUserMove call is suspended in the promotion prompt, a
\* further handleUserMove call changes neither the tree, nor the cursor, nor
\* the engine position, nor the set of suspended calls.
C2_PromotionLock ==
  [][(pending > 0 /\ last'.op = "handleUserMove")
       => UNCHANGED <<lines, cursorVars, chess, pending>>]_vars

\* C3: in every reachable state the cursor lies in 0..length of the current
\* line, and goToMove with any index, negative or beyond the end, leaves the
\* cursor at that index clamped into the range.
C3_CursorRange ==
  /\ currentIndex >= 0
  /\ currentIndex <= Len(lines[currentLine])
  /\ \A index \in IndexArgs(currentLine) :
       LET len == Len(lines[currentLine])
           r == goToMove(lines, Nav, index, destroyed, startFen, engineThrows)
       IN /\ r.currentIndex \in 0..len
          /\ ~destroyed =>
               r.currentIndex = (IF index < 0 THEN 0
                                 ELSE IF index > len THEN len ELSE index)

\* a navigation operation has run on a non-empty line inside a variation and
\* the cursor stands at the end of that line
C3_Witness ==
  /\ last.op = "other"
  /\ lineStack # <<>>
  /\ Len(lines[currentLine]) > 0
  /\ currentIndex = Len(lines[currentLine])

\* C4: after goToMove the cursor is the number of plies of the current line
\* the replay applied, so a replay that fails at ply k leaves the cursor at k.
C4_ReplayTruncates ==
  [][(GoToMove /\ ~destroyed)
       => currentIndex' = PliesReplayed(lines', lineStack', currentLine',
                                        currentIndex', startFen,
                                        engineThrows)]_vars

\* the user move of this step is legal, differs from the existing next node
\* and from the first move of every variation of that node
Deviates ==
  /\ MoveApplied
  /\ currentIndex < Len(lines[currentLine])
  /\ lines[currentLine][currentIndex + 1].san # last'.san
  /\ VariationsStarting(lines, lines[currentLine][currentIndex + 1],
                        last'.san) = {}

\* exactly one line, holding one node with the move's SAN, is added to the
\* arena and its id is appended to the variations of node `at` of the current
\* line; nothing else of the tree changes
NewVariationAt(at) ==
  /\ at \in 1..Len(lines[currentLine])
  /\ Len(lines') = Len(lines) + 1
  /\ Len(lines'[Len(lines')]) = 1
  /\ lines'[Len(lines')][1].san = last'.san
  /\ lines'[Len(lines')][1].variations = <<>>
  /\ \A id \in 1..Len(lines) :
       /\ Len(lines'[id]) = Len(lines[id])
       /\ \A j \in 1..Len(lines[id]) :
            /\ NodeExtends(lines[id][j], lines'[id][j])
            /\ lines'[id][j].variations =
                 (IF id = currentLine /\ j = at
                    THEN Append(lines[id][j].variations, Len(lines'))
                  ELSE lines[id][j].variations)

\* C5 as stated: the new variation hangs on the node of the move played just
\* before the deviation and becomes the current line.
C5_AttachedToPlayedNode ==
  [][(Deviates /\ ~destroyed)
       => /\ NewVariationAt(currentIndex)
          /\ currentLine' = Len(lines')]_vars

\* C5 amended: a legal user move that differs from the existing next node of
\* the current line and from the first move of each of that node's variations,
\* applied while the navigator is not destroyed, adds exactly one variation of
\* exactly one node with that SAN to the existing next node
\* (currentLine[currentIndex], the move the new one is an alternative to),
\* changes nothing else of the tree, pushes the frame (current line,
\* currentIndex + 1) and makes the new variation the current line with the
\* cursor after its one move.
C5_VariationEntry ==
  [][(Deviates /\ ~destroyed)
       => /\ NewVariationAt(currentIndex + 1)
          /\ currentLine' = Len(lines')
          /\ currentIndex' = 1
          /\ lineStack' = Append(lineStack, [line |-> currentLine,
                                             index |-> currentIndex + 1])]_vars

\* a user move has created a one-node variation and entered it
C5_Witness ==
  /\ last.op \in UserMoveOps /\ last.san # NoMove
  /\ currentLine > Len(InitialLines)
  /\ Len(lines[currentLine]) = 1
  /\ lines[currentLine][1].san = last.san
  /\ currentIndex = 1
  /\ Len(lineStack) = last.depth + 1
  /\ Last(lineStack).index >= 2

\* C6: a user move with the SAN of the existing next node of the current line
\* advances the cursor by one and changes neither the current line, nor the
\* frame stack, nor the tree.
C6_Retrace ==
  [][(/\ MoveApplied
      /\ currentIndex < Len(lines[currentLine])
      /\ lines[currentLine][currentIndex + 1].san = last'.san)
       => /\ currentIndex' = currentIndex + 1
          /\ currentLine' = currentLine
          /\ lineStack' = lineStack
          /\ lines' = lines]_vars

\* a user move has retraced the node the cursor now stands after, in a tree
\* no user move has ever extended
C6_Witness ==
  /\ last.op \in UserMoveOps /\ last.san # NoMove
  /\ lines = InitialLines
  /\ Len(lineStack) = last.depth
  /\ currentIndex >= 1
  /\ lines[currentLine][currentIndex].san = last.san

\* no node carries two non-empty variations with the same first SAN
NoDuplicateVariations ==
  \A id \in 1..Len(lines) : \A j \in 1..Len(lines[id]) :
    \A v, w \in 1..Len(lines[id][j].variations) :
      LET a == lines[lines[id][j].variations[v]]
          b == lines[lines[id][j].variations[w]]
      IN (v # w /\ Len(a) > 0 /\ Len(b) > 0) => a[1].san # b[1].san

\* C7: a user move that differs from the next node of the current line and
\* equals the first move of a variation of that node enters the first such
\* variation: it becomes the current line, one frame is pushed, the cursor is
\* after its first move and the tree is unchanged; no node ever carries two
\* variations with the same first SAN.
C7_EnterExisting ==
  /\ []NoDuplicateVariations
  /\ [][(/\ MoveApplied /\ ~destroyed
         /\ currentIndex < Len(lines[currentLine])
         /\ lines[currentLine][currentIndex + 1].san # last'.san
         /\ VariationsStarting(lines, lines[currentLine][currentIndex + 1],
                               last'.san) # {})
          => LET node == lines[currentLine][currentIndex + 1]
                 vs == VariationsStarting(lines, node, last'.san)
                 first == CHOOSE v \in vs : \A w \in vs : v <= w
             IN /\ currentLine' = node.variations[first]
                /\ lineStack' = Append(lineStack, [line |-> currentLine,
                                                   index |-> currentIndex + 1])
                /\ currentIndex' = 1
                /\ lines' = lines]_vars

\* a user move has entered a variation that the tree already had
C7_Witness ==
  /\ last.op \in UserMoveOps /\ last.san # NoMove
  /\ lines = InitialLines
  /\ Len(lineStack) = last.depth + 1
  /\ currentIndex = 1
  /\ lines[currentLine][1].san = last.san
  /\ LET parent == Last(lineStack)
     IN currentLine \in
          {lines[parent.line][parent.index].variations[v] :
             v \in 1..Len(lines[parent.line][parent.index].variations)}

\* C8: a legal user move with the cursor at the end of the current line is
\* appended as the new last node of that line, the cursor moves to the new
\* end, the frame stack is unchanged and no variation is created; the arena
\* gains a variation only when a move diverges from an existing continuation.
C8_AppendAtEnd ==
  [][/\ (MoveApplied /\ currentIndex = Len(lines[currentLine]))
          => /\ Len(lines') = Len(lines)
             /\ lines'[currentLine] =
                  Append(lines[currentLine],
                         MoveNode(last'.san, Play(chess, last'.san),
                                  NoComment, NoNag))
             /\ \A id \in 1..Len(lines) :
                  id # currentLine => lines'[id] = lines[id]
             /\ currentLine' = currentLine
             /\ currentIndex' = Len(lines[currentLine]) + 1
             /\ lineStack' = lineStack
     /\ Len(lines') > Len(lines)
          => /\ MoveApplied
             /\ currentIndex < Len(lines[currentLine])
             /\ lines[currentLine][currentIndex + 1].san # last'.san]_vars

\* a user move has been appended at the end of a line that had a move already
C8_Witness ==
  /\ last.op \in UserMoveOps /\ last.san # NoMove
  /\ Added = 1
  /\ Len(lines) = Len(InitialLines)
  /\ Len(lineStack) = last.depth
  /\ currentIndex = Len(lines[currentLine])
  /\ currentIndex >= 2
  /\ lines[currentLine][currentIndex].san = last.san

\* C9: every operation other than a user move leaves the whole tree
\* unchanged, and a user move only appends: at most one node, either at the
\* end of the current line or as a new one-node variation; no node or
\* variation is removed or reordered and no node's san, fen, comment or NAG
\* changes.
C9_TreeOwnership ==
  [][/\ moveTree' = moveTree
     /\ last'.op \notin UserMoveOps => lines' = lines
     /\ lines' # lines
          => /\ Len(lines') >= Len(lines)
             /\ \A id \in 1..Len(lines) : LineExtends(lines[id], lines'[id])
             /\ NodeCount(lines', Len(lines'))
                  = NodeCount(lines, Len(lines)) + 1
             /\ \/ /\ Len(lines') = Len(lines)
                   /\ Len(lines'[currentLine]) = Len(lines[currentLine]) + 1
                \/ /\ Len(lines') = Len(lines) + 1
                   /\ Len(lines'[Len(lines')]) = 1]_vars

\* an operation other than a user move has run, outside every variation, on a
\* tree to which a user move had added a variation
C9_Witness ==
  /\ last.op \in {"other", "rewind", "destroy"}
  /\ Len(lines) > Len(InitialLines)
  /\ lineStack = <<>>

\* this step is a step of action `op` on a live navigator inside a variation
\* with the cursor at most 1
Rewinds(op) ==
  /\ op
  /\ ~destroyed
  /\ lineStack # <<>>
  /\ currentIndex <= 1

\* C10 as stated: goBack or goToStart inside a variation with the cursor at
\* most 1 pops exactly one frame; afterwards the current line is that frame's
\* line and the cursor is that frame's resume index.
C10_ExitAtResumeIndex ==
  [][(Rewinds(GoBack) \/ Rewinds(GoToStart))
       => /\ lineStack' = Front(lineStack)
          /\ currentLine' = Last(lineStack).line
          /\ currentIndex' = Last(lineStack).index]_vars

\* C10 amended: goBack or goToStart on a live navigator inside a variation
\* with the cursor at most 1 pops exactly one frame and makes that frame's
\* line the current line; goBack leaves the cursor at the frame's resume index
\* minus one (the position the variation branched from), goToStart leaves it
\* at 0 when the parent is the outermost line and at 1 otherwise, each
\* clamped into the parent line.
C10_ExitVariation ==
  [][/\ (Rewinds(GoBack) \/ Rewinds(GoToStart))
          => /\ lineStack' = Front(lineStack)
             /\ currentLine' = Last(lineStack).line
     /\ Rewinds(GoBack)
          => currentIndex' =
               Max(0, Min(Len(lines[Last(lineStack).line]),
                          Last(lineStack).index - 1))
     /\ Rewinds(GoToStart)
          => currentIndex' =
               (IF Len(lineStack) = 1 THEN 0
                ELSE Min(Len(lines[Last(lineStack).line]), 1))]_vars

\* goBack or goToStart has left a variation: the frame stack is one shorter than when the
\* call began and the cursor stands before a node that has variations
C10_Witness ==
  /\ last.op = "rewind"
  /\ Len(lineStack) = last.depth - 1
  /\ currentIndex < Len(lines[currentLine])
  /\ lines[currentLine][currentIndex + 1].variations # <<>>

\* C11: if goToMove(x) leaves the cursor at i, a following goToMove(i) changes
\* neither the current line, nor the cursor, nor the frame stack, nor the
\* engine position (goToMove never touches the tree).
C11_GoToMoveIdempotent ==
  \A index \in IndexArgs(currentLine) :
    LET first == goToMove(lines, Nav, index, destroyed, startFen, engineThrows)
        second == goToMove(lines, first, first.currentIndex, destroyed,
                           startFen, engineThrows)
    IN second = first

\* a navigation operation has left the cursor after a move inside a
\* variation, where goToMove to the cursor's own index replays through a frame
\* and changes nothing
C11_Witness ==
  /\ last.op = "other"
  /\ ~destroyed
  /\ lineStack # <<>>
  /\ currentIndex >= 1
  /\ goToMove(lines, Nav, currentIndex, destroyed, startFen, engineThrows) = Nav

\* the engine rejects the move a user-move call submits: a direct call on a
\* live navigator, or a suspended call whose prompt resolves
RejectedUserMove ==
  \/ \E key \in UserKeys :
       /\ ~destroyed
       /\ ~isPromotion(chess, key)
       /\ EngineMove(chess, key, "q") = NoMove
       /\ Continue(key, "q", "handleUserMove")
       /\ UNCHANGED pending
  \/ \E piece \in PromotionPieces :
       /\ pending > 0
       /\ EngineMove(chess, PromotionKey, piece) = NoMove
       /\ pending' = pending - 1
       /\ Continue(PromotionKey, piece, "promotionChosen")

\* C12: a rejected user move leaves the tree, the current line, the cursor,
\* the frame stack and the engine position as they were, and the handler
\* redraws the board from the engine before it returns.
C12_FailedMoveResyncs ==
  [][RejectedUserMove =>
       /\ UNCHANGED <<lines, moveTree, currentLine, currentIndex, lineStack,
                      chess>>
       /\ last'.sync]_vars

\* ------------------------------------------------------------------------
\* Autoplay left to itself: while autoplay runs the only event is its timer,
\* which setInterval keeps firing until it is cleared
\* ------------------------------------------------------------------------
AutoBrowse ==
  ~isPlaying /\ (GoToMove \/ GoToVariation \/ GoBack \/ HandleUserMove)

AutoDestroy == ~isPlaying /\ Destroy

AutoStart == ~isPlaying /\ ToggleAutoPlay

AutoTick == isPlaying /\ Tick

NextAutoPlay ==
  \/ AutoBrowse
  \/ AutoDestroy
  \/ AutoStart
  \/ AutoTick

SpecAutoPlay == Init /\ [][NextAutoPlay]_vars /\ WF_vars(AutoTick)

AutoPlayStopped ==
  /\ ~isPlaying
  /\ timers = {}
  /\ currentIndex = Len(lines[currentLine])

\* C13: once autoplay is started and only its timer fires, autoplay
\* eventually stops by itself with the cursor at the end of the current line,
\* isPlaying false and no timer pending.
C13_AutoPlayStops == isPlaying ~> AutoPlayStopped

\* ------------------------------------------------------------------------
\* Autoplay under arbitrary toggling and stopping: the same operations as in
\* Spec, with a ghost that tells a stop of a running autoplay from a stop of
\* a stopped one
\* ------------------------------------------------------------------------
StopMarked == StopAutoPlayAs(Op("stop", NoMove, IF isPlaying THEN 1 ELSE 0))

NextStop ==
  \/ GoToMove
  \/ HandleUserMove
  \/ ToggleAutoPlay
  \/ StopMarked
  \/ Tick
  \/ Destroy

SpecStop == Init /\ [][NextStop]_vars

\* C14: after stopAutoPlay isPlaying is false and no timer is pending, so no
\* tick happens while autoplay is off; stopAutoPlay on a stopped navigator
\* changes nothing; at most one autoplay timer exists at any time.
C14_AutoPlayStop ==
  /\ [](/\ Cardinality(timers) <= 1
        /\ ~isPlaying => timers = {} /\ stopAutoPlay(Play3) = Play3)
  /\ [][/\ StopMarked => ~isPlaying' /\ timers' = {}
        /\ ~isPlaying => ~Tick
        /\ StopMarked /\ ~isPlaying =>
             UNCHANGED <<lines, cursorVars, chess, playVars, destroyed,
                         pending>>]_vars

\* stopAutoPlay has stopped a running autoplay whose timer had advanced the
\* cursor
C14_Witness ==
  /\ last = Op("stop", NoMove, 1)
  /\ ~destroyed
  /\ currentIndex > 0
  /\ ~isPlaying
  /\ timers = {}

\* ------------------------------------------------------------------------
\* PuzzleController (puzzle-controller.ts).  puzzle.data is this.data, the
\* object parseChessInput returned; `result` keeps the value it had when the
\* controller was constructed.
\* ------------------------------------------------------------------------
\* solution texts: one to three plies, a promotion first or last, a skipped
\* word
PuzzleWords ==
  { <<SanText("e4")>>, <<SanText("e4"), SanText("e5")>>,
    <<SanText("e4"), <<"X", "y", "z">>, SanText("e5"), SanText("d4")>>,
    <<SanText("a8=N"), SanText("e5")>>,
    <<SanText("e5"), SanText("d4")>>, <<SanText("e5")>>,
    <<SanText("e4"), SanText("e5"), SanText("a8=Q")>> }

PuzzleSources ==
  { [markers |-> <<PuzzleMarker>>,
     chessData |-> [form |-> "pgn", fen |-> f, words |-> ws]] :
      f \in {NoFen, StartFen("b", 3)}, ws \in PuzzleWords }

NoPrompt == [key |-> "none", expected |-> NoMove]

\* constructor and field initialisers
NewPuzzle(data, fen) ==
  [data |-> data, chess |-> fen, state |-> "waiting", moveIndex |-> 0,
   playedMoves |-> <<>>, solutionRevealed |-> FALSE, destroyed |-> FALSE,
   isPromoting |-> FALSE, prompt |-> NoPrompt, timers |-> 0]

PlayedMove(san, fen, comment) == [san |-> san, fen |-> fen, comment |-> comment]

ColorOf(fen) == IF Turn(fen) = "w" THEN "white" ELSE "black"

\* start(); the earlier timers are not cleared
start(p, fen0) ==
  LET opponentFirst == ColorOf(fen0) # p.data.playerColor
                       /\ Len(p.data.solutionMoves) > 0
  IN [p EXCEPT !.state = IF opponentFirst THEN "waiting" ELSE "playing",
               !.moveIndex = 0,
               !.playedMoves = <<>>,
               !.solutionRevealed = FALSE,
               !.destroyed = FALSE,
               !.chess = fen0,
               !.timers = IF opponentFirst THEN @ + 1 ELSE @]

playOpponentMove(p) ==
  IF p.destroyed \/ p.moveIndex >= Len(p.data.solutionMoves) THEN p
  ELSE LET san == p.data.solutionMoves[p.moveIndex + 1].san
           moved == IF Legal(p.chess, san)
                      THEN [p EXCEPT
                              !.chess = Play(@, san),
                              !.playedMoves =
                                 Append(@, PlayedMove(san, Play(p.chess, san),
                                                      NoComment)),
                              !.moveIndex = @ + 1]
                    ELSE p
       IN [moved EXCEPT !.state =
             IF moved.moveIndex < Len(p.data.solutionMoves) THEN "playing"
             ELSE "solved"]

\* handleMove returns before it takes the lock
HandleMoveIgnored(p) ==
  \/ p.state # "playing"
  \/ p.isPromoting
  \/ p.moveIndex >= Len(p.data.solutionMoves)

\* variant: the wrong move stays on the engine
WrongMove_noUndo(p, san) ==
  [p EXCEPT !.chess = Play(@, san),
            !.state = "failed",
            !.playedMoves = Append(@, PlayedMove(san, NoFen, <<"wrong">>))]

\* "Wrong move - undo it"
WrongMove(p, san) ==
  [p EXCEPT !.chess = Undo(Play(@, san)),
            !.state = "failed",
            !.playedMoves = Append(@, PlayedMove(san, NoFen, <<"wrong">>))]

CorrectMove(p, san) ==
  LET done == p.moveIndex + 1 >= Len(p.data.solutionMoves)
  IN [p EXCEPT !.chess = Play(@, san),
               !.playedMoves = Append(@, PlayedMove(san, Play(p.chess, san),
                                                    NoComment)),
               !.moveIndex = @ + 1,
               !.state = IF done THEN "solved" ELSE "waiting",
               !.timers = IF done THEN @ ELSE @ + 1]

\* handleMove from the engine call to the finally block
handleMove(p, key, promotion, expected) ==
  LET san == EngineMove(p.chess, key, promotion)
      moved == IF san = NoMove THEN p
               ELSE IF san = expected THEN CorrectMove(p, san)
               ELSE WrongMove(p, san)
  IN [moved EXCEPT !.isPromoting = FALSE, !.prompt = NoPrompt]

PuzzleStep(p, op) ==
  /\ puzzle' = p
  /\ last' = op
  /\ UNCHANGED <<engineThrows, startFen, startMove, parseVars, treeVars,
                 cursorVars, chess, playVars, destroyed, pending, result>>

InitPuzzle ==
  /\ engineThrows \in BOOLEAN
  /\ \E src \in PuzzleSources :
       /\ source = src
       /\ result = parseChessInput(src, engineThrows)
  /\ startFen = LoadedFen(result.fen)
  /\ startMove = result.startMove
  /\ stage = "puzzle"
  /\ parsed = NoResult
  /\ clip = <<>>
  /\ reparsed = NoResult
  /\ NavIdle
  /\ puzzle = NewPuzzle(result, startFen)

\* start(), called by the first render
PuzzleStart ==
  /\ puzzle.timers < MaxTimers
  /\ PuzzleStep(start(puzzle, startFen), Op("start", NoMove, 0))

Retry ==
  /\ puzzle.timers < MaxTimers
  /\ PuzzleStep(start([puzzle EXCEPT !.solutionRevealed = FALSE], startFen),
                Op("start", NoMove, 0))

ShowSolution ==
  PuzzleStep([puzzle EXCEPT !.solutionRevealed = TRUE], Op("other", NoMove, 0))

HideSolution ==
  PuzzleStep([puzzle EXCEPT !.solutionRevealed = FALSE], Op("other", NoMove, 0))

\* showHint only highlights a square of the board
ShowHint == PuzzleStep(puzzle, Op("hint", NoMove, 0))

\* a setTimeout callback: if (!this.destroyed) this.playOpponentMove()
OpponentTimer ==
  /\ puzzle.timers > 0
  /\ PuzzleStep(playOpponentMove([puzzle EXCEPT !.timers = @ - 1]),
                Op("opponent", NoMove, 0))

\* handleMove(orig, dest): ignored, suspended in the promotion prompt, or
\* run to its end
HandleMove ==
  \E key \in UserKeys :
    LET expected == puzzle.data.solutionMoves[puzzle.moveIndex + 1].san
    IN IF HandleMoveIgnored(puzzle)
         THEN PuzzleStep(puzzle, Op("ignored", NoMove, 0))
       ELSE IF isPromotion(puzzle.chess, key)
         THEN PuzzleStep([puzzle EXCEPT
                            !.isPromoting = TRUE,
                            !.prompt = [key |-> key, expected |-> expected]],
                         Op("prompt", NoMove, 0))
       ELSE PuzzleStep(handleMove(puzzle, key, "q", expected),
                       Op("handleMove", EngineMove(puzzle.chess, key, "q"), 0))

\* the promotion prompt of the suspended handleMove resolves
PuzzlePromotion ==
  \E piece \in PromotionPieces :
    /\ puzzle.prompt # NoPrompt
    /\ PuzzleStep(handleMove(puzzle, puzzle.prompt.key, piece,
                             puzzle.prompt.expected),
                  Op("handleMove",
                     EngineMove(puzzle.chess, puzzle.prompt.key, piece), 0))

PuzzleDestroy ==
  PuzzleStep([puzzle EXCEPT !.destroyed = TRUE], Op("destroy", NoMove, 0))

NextPuzzle ==
  \/ PuzzleStart
  \/ Retry
  \/ ShowSolution
  \/ HideSolution
  \/ ShowHint
  \/ OpponentTimer
  \/ HandleMove
  \/ PuzzlePromotion
  \/ PuzzleDestroy

SpecPuzzle == InitPuzzle /\ [][NextPuzzle]_vars

\* a user move the engine accepts that is not the expected solution move
WrongUserMove ==
  \/ \E key \in UserKeys :
       /\ ~HandleMoveIgnored(puzzle)
       /\ ~isPromotion(puzzle.chess, key)
       /\ EngineMove(puzzle.chess, key, "q") \notin
            {NoMove, puzzle.data.solutionMoves[puzzle.moveIndex + 1].san}
       /\ puzzle' = handleMove(puzzle, key, "q",
                       puzzle.data.solutionMoves[puzzle.moveIndex + 1].san)
  \/ \E piece \in PromotionPieces :
       /\ puzzle.prompt # NoPrompt
       /\ EngineMove(puzzle.chess, puzzle.prompt.key, piece) \notin
            {NoMove, puzzle.prompt.expected}
       /\ puzzle' = handleMove(puzzle, puzzle.prompt.key, piece,
                               puzzle.prompt.expected)

\* C15: no puzzle operation changes data.solutionMoves; a wrong user move
\* leaves the engine at the position before the move, is appended to the
\* played moves marked as wrong, and puts the puzzle in the failed state.
C15_SolutionReadOnly ==
  /\ [](puzzle.data.solutionMoves = result.solutionMoves)
  /\ [][WrongUserMove =>
          /\ puzzle'.chess = puzzle.chess
          /\ puzzle'.state = "failed"
          /\ puzzle'.moveIndex = puzzle.moveIndex
          /\ Len(puzzle'.playedMoves) = Len(puzzle.playedMoves) + 1
          /\ Front(puzzle'.playedMoves) = puzzle.playedMoves
          /\ Last(puzzle'.playedMoves).san = last'.san
          /\ Last(puzzle'.playedMoves).comment = <<"wrong">>]_vars

\* a wrong move has been played after the opponent's reply to a correct
\* first move: the puzzle is failed, the engine is two plies in, and the
\* played moves end with the wrong move
C15_Witness ==
  /\ puzzle.state = "failed"
  /\ last.op = "handleMove"
  /\ puzzle.moveIndex = 2
  /\ Len(puzzle.chess.hist) = 2
  /\ Len(puzzle.playedMoves) = 3
  /\ puzzle.playedMoves[3].comment = <<"wrong">>
  /\ puzzle.data.solutionMoves = result.solutionMoves

\* ------------------------------------------------------------------------
\* parseChessInput over code blocks of up to MaxMarkers marker lines
\* followed by chess data
\* ------------------------------------------------------------------------
MarkerLines ==
  { PuzzleMarker,
    Marker("white", 0, <<>>, NoColor),
    Marker("black", 0, <<>>, NoColor),
    Marker("flip", 0, <<>>, NoColor),
    Marker("ply", 3, <<>>, NoColor),
    Marker("arrow", 0, <<"e2", "e4">>, NoColor),
    Marker("arrow", 0, <<"d2", "d4">>, "blue"),
    Marker("circle", 0, <<"e4">>, "R"),
    Marker("highlight", 0, <<"e4">>, "pink") }

MoveTexts ==
  { <<SanText("e4")>>, <<SanText("e4"), SanText("e5")>>,
    <<SanText("e5")>>, <<SanText("e5"), SanText("d4")>>,
    << <<"X", "y", "z">> >>,
    <<SanText("e4"), <<"X", "y", "z">>, SanText("e5")>>,
    <<SanText("e4"), SanText("e5"), <<"(">>, SanText("d5"), <<"(">>,
      SanText("d4"), <<")">>, <<")">>>> }

ChessDatas ==
  { [form |-> "none", fen |-> NoFen, words |-> <<>>],
    [form |-> "fen", fen |-> StartFen("b", 3), words |-> <<>>],
    [form |-> "fen", fen |-> InvalidFen, words |-> <<>>] }
  \cup
  { [form |-> "pgn", fen |-> f, words |-> ws] :
      f \in {NoFen, StartFen("b", 3), InvalidFen}, ws \in MoveTexts }

Sources ==
  { [markers |-> ms, chessData |-> d] :
      ms \in UNION {[1..n -> MarkerLines] : n \in 0..MaxMarkers},
      d \in ChessDatas }

InitInput ==
  /\ engineThrows \in BOOLEAN
  /\ source \in Sources
  /\ startFen = DefaultFen
  /\ startMove = 0
  /\ stage = "input"
  /\ parsed = NoResult
  /\ clip = <<>>
  /\ reparsed = NoResult
  /\ NavIdle
  /\ result = EmptyResult
  /\ puzzle = NoPuzzle

ParseInput ==
  /\ stage = "input"
  /\ result' = parseChessInput(source, engineThrows)
  /\ stage' = "parsed"
  /\ UNCHANGED <<engineThrows, startFen, startMove, source, parsed, clip,
                 reparsed, navVars, puzzle>>

SpecInput == InitInput /\ [][ParseInput]_vars

\* the side to move in the base position of the result (white without one)
BaseColor ==
  IF result.fen # NoFen /\ result.fen.turn = "b" THEN "black" ELSE "white"

\* C16: for a puzzle with a non-empty solution the solving side is the side
\* to move in the base position when the solution has an odd number of
\* plies and the other side when it has an even number.
C16_PuzzleParity ==
  (/\ stage = "parsed"
   /\ result.isPuzzle
   /\ result.error = NoError
   /\ Len(result.solutionMoves) > 0)
    => result.playerColor =
         IF Len(result.solutionMoves) % 2 = 1 THEN BaseColor
         ELSE Opposite(BaseColor)

\* a puzzle from a base position with Black to move and a solution of two
\* plies: White solves
C16_Witness ==
  /\ stage = "parsed"
  /\ result.isPuzzle
  /\ result.error = NoError
  /\ result.fen = StartFen("b", 3)
  /\ Len(result.solutionMoves) = 2
  /\ result.playerColor = "white"

\* the text "e4 Xyz e5"
TextSkipped == Join(<<SanText("e4"), <<"X", "y", "z">>, SanText("e5")>>)

\* C17: every move token the engine rejects adds no node and exactly one
\* warning naming the token and the number of moves parsed so far: in a text
\* of move tokens only there are as many warnings as tokens that gave no
\* node, and "e4 Xyz e5" gives the moves e4, e5 and one warning for Xyz after
\* 1 move.
C17_RejectedTokenWarned ==
  stage = "parsed" =>
    /\ (\A i \in 1..Len(tokenizePgn(source)) :
           tokenizePgn(source)[i].type = "move")
         => Len(parsed.warnings) =
              Len(tokenizePgn(source)) - Len(parsed.lines[RootLine])
    /\ source = TextSkipped =>
         /\ LineSans(parsed.lines[RootLine], 2) = <<"e4", "e5">>
         /\ Len(parsed.lines[RootLine]) = 2
         /\ parsed.warnings = <<[token |-> <<"X", "y", "z">>, after |-> 1]>>

\* the overlay markers of one kind, in input order
MarkersOf(markers, key) ==
  LET HasKey(m) == m.key = key
  IN SelectSeq(markers, HasKey)

\* the overlay has the colour of its marker: none without a colour word,
\* the table's colour for a word of the table
ColourOf(overlay, marker) ==
  /\ marker.color = NoColor => overlay.color = NoColor
  /\ marker.color \in DOMAIN ANNOTATION_COLORS =>
       overlay.color = ANNOTATION_COLORS[marker.color]

\* C18: after the marker lines are processed top to bottom the orientation
\* is the one of the last orientation marker (white without one), every
\* arrow, circle and highlight marker has added exactly one overlay, in
\* input order, with no colour when the marker has no colour word and the
\* table's colour when it has one; the overlays are those of the result.
C18_MarkerOrdering ==
  LET markers == source.markers
      marked == ParseMarkers(markers, EmptyResult)
      oriented == {i \in 1..Len(markers) : markers[i].key \in OrientationKeys}
      lastKey == markers[CHOOSE i \in oriented : \A j \in oriented : j <= i].key
      arrows == MarkersOf(markers, "arrow")
      circles == MarkersOf(markers, "circle")
      highlights == MarkersOf(markers, "highlight")
  IN stage \in {"input", "parsed"} =>
       /\ marked.orientation =
            IF oriented = {} \/ lastKey = "white" THEN "white" ELSE "black"
       /\ Len(marked.arrows) = Len(arrows)
       /\ \A i \in 1..Len(arrows) :
            /\ marked.arrows[i].from = arrows[i].squares[1]
            /\ marked.arrows[i].to = arrows[i].squares[2]
            /\ ColourOf(marked.arrows[i], arrows[i])
       /\ Len(marked.circles) = Len(circles)
       /\ \A i \in 1..Len(circles) :
            /\ marked.circles[i].square = circles[i].squares[1]
            /\ ColourOf(marked.circles[i], circles[i])
       /\ Len(marked.highlights) = Len(highlights)
       /\ \A i \in 1..Len(highlights) :
            /\ marked.highlights[i].square = highlights[i].squares[1]
            /\ ColourOf(marked.highlights[i], highlights[i])
       /\ stage = "parsed" =>
            /\ result.arrows = marked.arrows
            /\ result.circles = marked.circles
            /\ result.highlights = marked.highlights
            /\ oriented # {} => result.orientation = marked.orientation

\* the block "[white]", "[flip]" has been parsed: the board is seen from
\* Black's side
C18_Witness ==
  /\ stage = "parsed"
  /\ Len(source.markers) = 2
  /\ source.markers[1].key = "white"
  /\ source.markers[2].key = "flip"
  /\ result.error = NoError
  /\ result.orientation = "black"

\* C19: the result has its error set when no chess data follows the markers,
\* when the bare position or the FEN header is invalid, when a puzzle has
\* only a bare position, and when a puzzle has no valid solution move; a
\* result with an error holds no parsed moves and was not finalized as a
\* puzzle (solving side, orientation and editability are as the markers
\* left them).
C19_FatalInputErrors ==
  LET data == source.chessData
      marked == ParseMarkers(source.markers, EmptyResult)
  IN stage = "parsed" =>
       /\ data.form = "none" => result.error # NoError
       /\ data.fen = InvalidFen => result.error # NoError
       /\ marked.isPuzzle /\ data.form = "fen" => result.error # NoError
       /\ marked.isPuzzle /\ result.solutionMoves = <<>> =>
            result.error # NoError
       /\ result.error # NoError =>
            /\ result.moves = EmptyResult.moves
            /\ result.solutionMoves = <<>>
            /\ result.playerColor = marked.playerColor
            /\ result.orientation = marked.orientation
            /\ result.isEditable = marked.isEditable

\* C20: with [ply: N], N > 0, the goToStartMove of the initial render leaves
\* the cursor on the main line at ply min(N, length of the main line),
\* counted in half-moves from the base position.
C20_PlyOffset ==
  [][(last = NoOp /\ startMove > 0 /\ GoToStartMove) =>
       /\ currentLine' = currentLine
       /\ lineStack' = <<>>
       /\ currentIndex' = Min(startMove, Len(lines[currentLine]))]_vars

LongestLine(ls) ==
  LET lens == {Len(ls[p]) : p \in 1..Len(ls)}
  IN CHOOSE m \in lens : \A x \in lens : x <= m

\* the line and the 1-based index of the node whose variations hold `line`
OwnerOf(ls, line) ==
  CHOOSE o \in {<<p, k>> : p \in 1..Len(ls), k \in 1..LongestLine(ls)} :
    /\ o[2] <= Len(ls[o[1]])
    /\ \E i \in 1..Len(ls[o[1]][o[2]].variations) :
         ls[o[1]][o[2]].variations[i] = line

\* the position before the k-th node of `line`: the fen of its predecessor,
\* or the start position of the line, which is the position before the node
\* that owns the line
RECURSIVE PositionBefore(_, _, _, _)
PositionBefore(ls, line, k, fen0) ==
  IF k > 1 THEN ls[line][k - 1].fen
  ELSE IF line = RootLine THEN fen0
  ELSE LET o == OwnerOf(ls, line)
       IN PositionBefore(ls, o[1], o[2], fen0)

\* every variation stored on a node starts from the position before the node
BranchOrigin(ls, fen0) ==
  \A line \in 1..Len(ls) :
    \A k \in 1..Len(ls[line]) :
      \A i \in 1..Len(ls[line][k].variations) :
        LET var == ls[ls[line][k].variations[i]]
        IN var # <<>> =>
             var[1].fen = Play(PositionBefore(ls, line, k, fen0), var[1].san)

\* C21: in every tree the builder returns, each variation stored on a node N
\* starts from the position before N (the fen of N's predecessor, or the
\* start position of N's line when N is its first node).
C21_BranchOrigin ==
  (stage = "parsed" /\ result.error = NoError /\ ~result.isPuzzle) =>
    BranchOrigin(result.moves, LoadedFen(result.fen))

\* ------------------------------------------------------------------------
\* Unbalanced variations (parser.ts open_variation / close_variation and the
\* closing loop at the end of parseMovesWithVariations)
\* ------------------------------------------------------------------------
CloseToken == [type |-> "close_variation", value |-> <<")">>]

\* the token list with the ignored parentheses removed and one explicit ")"
\* added for every frame still open at the end of the input
RECURSIVE BalancedTokens(_, _, _, _, _)
BalancedTokens(st, tokens, acc, fen0, throws) ==
  IF tokens = <<>>
    THEN acc \o [k \in 1..Len(st.stack) |-> CloseToken]
  ELSE LET token == Head(tokens)
           ignored == \/ /\ token.type = "close_variation"
                         /\ Len(st.stack) = 0
                      \/ /\ token.type = "open_variation"
                         /\ Len(st.currentMoves) = 0
       IN BalancedTokens(ParseStep(st, token, fen0, throws), Tail(tokens),
                   IF ignored THEN acc ELSE Append(acc, token), fen0, throws)

\* the builder without the closing loop
ParseExplicit(tokens, fen0, throws) ==
  ParseTokens(ParseState(fen0), tokens, fen0, throws)

\* C22: a ")" with no open frame and a "(" on an empty line are ignored, the
\* frames still open at the end of the input are closed exactly as explicit
\* ")" tokens close them, the line returned is the root line, and the
\* parentheses add no warning.
C22_UnbalancedTolerated ==
  stage = "parsed" =>
    LET tokens == tokenizePgn(source)
        st == ParseExplicit(
                BalancedTokens(ParseState(startFen), tokens, <<>>, startFen,
                         engineThrows),
                startFen, engineThrows)
    IN /\ st.stack = <<>>
       /\ parsed.lines = [st.lines EXCEPT ![RootLine] = st.currentMoves]
       /\ parsed.warnings = st.warnings
       /\ \A i \in 1..Len(parsed.warnings) :
            parsed.warnings[i].token \notin {<<"(">>, <<")">>}

\* "e4 ( e4" is parsed: the open frame is closed at the end of the input
C22_Witness ==
  /\ stage = "parsed"
  /\ source = Join(<< <<"e", "4">>, <<"(">>, <<"e", "4">> >>)
  /\ Len(parsed.lines) = 2
  /\ Len(parsed.lines[RootLine]) = 1
  /\ parsed.lines[RootLine][1].variations = <<2>>

\* ------------------------------------------------------------------------
\* The path from the root line to a line, read off the tree itself
\* ------------------------------------------------------------------------
HasOwner(ls, line) ==
  /\ line <= Len(ls)
  /\ \E p \in 1..Len(ls) : \E k \in 1..Len(ls[p]) :
       \E i \in 1..Len(ls[p][k].variations) :
         ls[p][k].variations[i] = line

\* the line is the root line or hangs, at any depth, on a node of it
RECURSIVE InTree(_, _)
InTree(ls, line) ==
  \/ line = RootLine
  \/ /\ HasOwner(ls, line)
     /\ InTree(ls, OwnerOf(ls, line)[1])

RECURSIVE RootPath(_, _)
RootPath(ls, line) ==
  IF line = RootLine THEN <<>>
  ELSE LET o == OwnerOf(ls, line)
       IN Append(RootPath(ls, o[1]), [line |-> o[1], index |-> o[2]])

\* C23: goToMoveInLine(L, i) on a live navigator: for a line L of the tree
\* other than the current line the frame stack becomes the root-to-L path (one
\* frame {parent line, index of the owning node + 1} per nesting level,
\* outermost first), L becomes the current line and the cursor is i clamped
\* into 0..length of L; for the current line it is goToMove(i) and the stack
\* is unchanged; for a line that is not in the tree nothing changes.
C23_GoToMoveInLine ==
  ~destroyed =>
    \A line \in 1..(Len(lines) + 1) :
      LET inTree == InTree(lines, line)
          path == IF inTree THEN RootPath(lines, line) ELSE <<>>
      IN \A index \in (IF line <= Len(lines) THEN IndexArgs(line)
                       ELSE {0, 1}) :
           LET r == goToMoveInLine(lines, moveTree, Nav, line, index,
                                   destroyed, startFen, engineThrows)
           IN IF line = currentLine
                THEN /\ r = goToMove(lines, Nav, index, destroyed, startFen,
                                     engineThrows)
                     /\ r.lineStack = lineStack
              ELSE IF ~inTree THEN r = Nav
              ELSE /\ r.lineStack = path
                   /\ r.currentLine = line
                   /\ r.currentIndex = Max(0, Min(Len(lines[line]), index))

\* a navigation operation has left the navigator at the start of a variation
\* whose frame names the second or a later node of the root line
C23_Witness ==
  /\ last.op = "other"
  /\ ~destroyed
  /\ currentLine # RootLine
  /\ InTree(lines, currentLine)
  /\ lineStack = RootPath(lines, currentLine)
  /\ lineStack[1].index >= 2
  /\ currentIndex = 0

\* ------------------------------------------------------------------------
\* Variation context in the serialized text
\* ------------------------------------------------------------------------
ContainsText(s, p) ==
  \E i \in 1..(Len(s) - Len(p) + 1) : SubSeq(s, i, i + Len(p) - 1) = p

\* "N." for White's move N and "N..." for Black's, from the position the move
\* is played in
MovePrefix(pos) ==
  NumText(pos.num) \o (IF pos.turn = "w" THEN <<".">> ELSE <<".", ".", ".">>)

\* C24: in the serialized text every variation is written in parentheses with
\* its first move carrying the move number and the side to move of the move
\* it is attached to: "(N. san" for an alternative to White's move N and
\* "(N... san" for an alternative to Black's.
C24_VariationContext ==
  stage = "serialized" =>
    \A line \in 1..Len(parsed.lines) :
      \A k \in 1..Len(parsed.lines[line]) :
        \A v \in 1..Len(parsed.lines[line][k].variations) :
          LET var == parsed.lines[parsed.lines[line][k].variations[v]]
              pos == PositionBefore(parsed.lines, line, k, startFen)
          IN (InTree(parsed.lines, line) /\ var # <<>>) =>
               ContainsText(clip, <<"(">> \o MovePrefix(pos) \o <<" ">>
                                    \o SanText(var[1].san))

\* ------------------------------------------------------------------------
\* Position reconstruction (utils.ts replayToPosition)
\* ------------------------------------------------------------------------
\* every node of the tree holds the position its move leads to, and every
\* variation starts from the position before the node it hangs on
WellFormedTree(ls, fen0) ==
  \A line \in 1..Len(ls) :
    InTree(ls, line) =>
      \A k \in 1..Len(ls[line]) :
        LET pos == PositionBefore(ls, line, k, fen0)
        IN /\ Legal(pos, ls[line][k].san)
           /\ ls[line][k].fen = Play(pos, ls[line][k].san)

\* C25: on a well-formed tree, after a navigation operation that ends in
\* goToMove with the cursor at i, the engine position is the replay from the
\* root start position of, for each frame from the outermost to the innermost,
\* the moves of the frame's line before the branched-from node, and then the
\* first i moves of the current line; it is the fen stored on node i of the
\* current line when i > 0, and for i = 0 the position before the
\* branched-from node of the innermost frame (the root start position when the
\* stack is empty).
C25_PositionReconstruction ==
  (/\ ~destroyed
   /\ last.op \in {"other", "rewind"}
   /\ InTree(lines, currentLine)
   /\ WellFormedTree(lines, startFen))
    => /\ chess = ReplayMoves(startFen,
                    FrameSans(lines, lineStack)
                      \o LineSans(lines[currentLine], currentIndex), FALSE)
       /\ currentIndex > 0 => chess = lines[currentLine][currentIndex].fen
       /\ currentIndex = 0 =>
            chess = (IF lineStack = <<>> THEN startFen
                     ELSE PositionBefore(lines, Last(lineStack).line,
                                         Last(lineStack).index, startFen))

\* ------------------------------------------------------------------------
\* Pending annotations (parser.ts parseMovesWithVariations)
\* ------------------------------------------------------------------------
\* the builder's state after the first t tokens of the source
StateAfter(t) ==
  ParseTokens(ParseState(startFen), SubSeq(tokenizePgn(source), 1, t),
              startFen, engineThrows)

PendingEmpty(st) ==
  /\ st.pendingComment = NoComment
  /\ st.pendingAnnotation = NoAnnotation
  /\ st.pendingNag = NoNag

\* token u creates the first node of the line that was current and empty
\* from token t on
NextNodeOfLine(t, u) ==
  /\ \A m \in (t - 1)..(u - 1) :
       /\ Len(StateAfter(m).currentMoves) = 0
       /\ Len(StateAfter(m).stack) = Len(StateAfter(t - 1).stack)
  /\ Len(StateAfter(u).currentMoves) = 1

CommentText(token) ==
  IF token.type = "comment" THEN Trim(StripOverlays(token.value)) ELSE <<>>

Overlays(token) ==
  IF token.type = "comment" THEN parseCommentAnnotations(token.value)
  ELSE <<>>

GlyphCodes(token) ==
  IF token.type = "nag" THEN {d.code : d \in NAG_BY_CODE(token.value)}
  ELSE {}

\* the node created by token u carries what token t put in a pending slot,
\* unless a token between them put something else in the same slot or the
\* move itself has an inline glyph
Carries(node, tokens, t, u) ==
  LET between == (t + 1)..(u - 1)
  IN /\ (/\ CommentText(tokens[t]) # <<>>
         /\ \A m \in between : CommentText(tokens[m]) = <<>>)
          => node.comment = CommentText(tokens[t])
     /\ (/\ Overlays(tokens[t]) # <<>>
         /\ \A m \in between : Overlays(tokens[m]) = <<>>)
          => node.annotations = Overlays(tokens[t])
     /\ (/\ GlyphCodes(tokens[t]) # {}
         /\ \A m \in between : GlyphCodes(tokens[m]) = {}
         /\ extractInlineNag(tokens[u].value).nagCode = NoNag)
          => node.nag \in GlyphCodes(tokens[t])

\* C26: a comment, an overlay list or a $N glyph met while the current line is
\* empty is held in its pending slot and attached to the next node created in
\* that same line, after which the pending slots are empty; the slots are
\* empty after a variation is opened and after one is closed.
C26_PendingAnnotations ==
  stage = "parsed" =>
    LET tokens == tokenizePgn(source)
    IN /\ \A t \in 1..Len(tokens) : \A u \in (t + 1)..Len(tokens) :
            (tokens[t].type \in {"comment", "nag"} /\ NextNodeOfLine(t, u))
              => /\ Carries(StateAfter(u).currentMoves[1], tokens, t, u)
                 /\ PendingEmpty(StateAfter(u))
       /\ \A t \in 1..Len(tokens) :
            Len(StateAfter(t).stack) # Len(StateAfter(t - 1).stack)
              => PendingEmpty(StateAfter(t))

\* ------------------------------------------------------------------------
\* Frame-stack consistency
\* ------------------------------------------------------------------------
\* the line entered from frame i of the stack
EnteredFrom(i) ==
  IF i < Len(lineStack) THEN lineStack[i + 1].line ELSE currentLine

\* C27: in every reachable state the frame stack is a real path: the
\* outermost frame's line is the root line, every frame's resume index r
\* satisfies 1 <= r <= length of the frame's line, the line entered from a
\* frame is one of the variations of the frame's line node r - 1, and the
\* stack is empty exactly when the current line is the root line.
C27_FrameStackConsistent ==
  /\ (lineStack = <<>>) <=> (currentLine = moveTree)
  /\ lineStack # <<>> => lineStack[1].line = moveTree
  /\ \A i \in 1..Len(lineStack) :
       LET frame == lineStack[i]
       IN /\ frame.index >= 1
          /\ frame.index <= Len(lines[frame.line])
          /\ \E v \in 1..Len(lines[frame.line][frame.index].variations) :
               lines[frame.line][frame.index].variations[v] = EnteredFrom(i)

\* C28: at most one opponent-move timer is pending at any time, and every move
\* an opponent-move timer plays is a ply of the opponent: it is played with
\* the opponent to move, also when retry() or start() ran while the timer was
\* pending.
C28_OpponentTimer ==
  /\ [](puzzle.timers <= 1)
  /\ [][(OpponentTimer /\ puzzle'.moveIndex # puzzle.moveIndex)
          => ColorOf(puzzle.chess) # puzzle.data.playerColor]_vars

\* ------------------------------------------------------------------------
\* Puzzle progress
\* ------------------------------------------------------------------------
\* the SANs of the played moves that are not marked wrong
RECURSIVE AcceptedSans(_)
AcceptedSans(played) ==
  IF played = <<>> THEN <<>>
  ELSE IF Head(played).comment = <<"wrong">> THEN AcceptedSans(Tail(played))
  ELSE <<Head(played).san>> \o AcceptedSans(Tail(played))

PuzzleProgress ==
  /\ puzzle.moveIndex >= 0
  /\ puzzle.moveIndex <= Len(puzzle.data.solutionMoves)
  /\ AcceptedSans(puzzle.playedMoves) =
       [k \in 1..puzzle.moveIndex |-> puzzle.data.solutionMoves[k].san]
  /\ puzzle.state = "solved" =>
       puzzle.moveIndex = Len(puzzle.data.solutionMoves)

\* C29: 0 <= moveIndex <= number of solution moves; the played moves not
\* marked wrong are exactly the first moveIndex solution moves, in order; the
\* state is solved only if moveIndex is the number of solution moves; and
\* handleMove changes neither moveIndex, nor the played moves, nor the state,
\* nor the engine position unless the state is playing and no promotion
\* prompt is pending when it is called.
C29_PuzzleProgress ==
  /\ []PuzzleProgress
  /\ [][(HandleMove /\ (puzzle.state # "playing" \/ puzzle.isPromoting))
          => /\ puzzle'.moveIndex = puzzle.moveIndex
             /\ puzzle'.playedMoves = puzzle.playedMoves
             /\ puzzle'.state = puzzle.state
             /\ puzzle'.chess = puzzle.chess]_vars

\* C30: once destroy() has been called no autoplay timer is pending and
\* isPlaying is false, and no later call or event (navigation, toggleAutoPlay,
\* a user move, the resolution of a promotion prompt opened before destroy, a
\* timer tick) changes the cursor, the current line, the frame stack or the
\* tree, or starts a timer.
C30_QuiescentAfterDestroy ==
  /\ [](destroyed => (timers = {} /\ ~isPlaying))
  /\ [][destroyed => UNCHANGED <<currentIndex, currentLine, lineStack, lines,
                                 timers>>]_vars

====
